---- MODULE Spec2Model ----
(***************************************************************************)
(* Verification model of the DNS forwarding proxy (dns_proxy package):     *)
(*   - DNSCache           (dns_proxy/cache.py): TTL + LRU store            *)
(*   - DNSProxyResolver   (dns_proxy/dns_resolver.py): cache lookup,       *)
(*     upstream forward, CNAME flattening / AAAA removal, cache insert     *)
(*   - HealthMonitor, ServerMetrics, ServerSelector (dns_proxy/health/)    *)
(*     and HealthAwareDNSResolver (dns_proxy/dns_resolver_health.py)       *)
(*   - RateLimiter, TokenBucket (dns_proxy/rate_limiter.py) in front of    *)
(*     the UDP listener DNSProxyProtocol (dns_proxy/dns_resolver.py)       *)
(* The specifications share the variables:                                 *)
(*   SpecCache    drives the cache through its public get / set / clear    *)
(*   SpecLRU      follows the eviction order of one cache                  *)
(*   Spec         drives the cache through resolve_query                   *)
(*   SpecFlatten  one query answered by every reply of the upstream        *)
(*   SpecMonitor  health probes and recorded query results                 *)
(*   SpecSelector server selection over changing health                    *)
(*   SpecFailover resolve_query of the health-aware resolver               *)
(*   SpecLimiter  is_allowed called by several clients                     *)
(*   SpecListener datagrams arriving at the UDP listener                   *)
(***************************************************************************)
EXTENDS Integers, Sequences, FiniteSets, TLC

VARIABLES
    now,            \* time.time(), in seconds
    max_size,       \* DNSCache.max_size
    cache,          \* DNSCache._cache: OrderedDict as a sequence, oldest first
    stats,          \* DNSCache._stats
    last_cleanup,   \* DNSCache._last_cleanup
    useOrder,       \* history: stored keys ordered by their last use (set or hit)
    lastSet,        \* history: the latest set of every key, and whether it was evicted or cleared since
    lastOp,         \* history: the cache operation performed last and its result
    remove_aaaa,    \* DNSProxyResolver.remove_aaaa
    req,            \* per client: the resolve_query call (query, position, response)
    upstreamCalls,  \* history: number of queries forwarded to the upstream, per cache key
    origin,         \* history: per cache key, the queries that wrote it and the upstream reply stored last
    config,         \* HealthMonitor.config and HealthMonitor._startup_time
    servers,        \* HealthMonitor.servers: the UpstreamServer of every entry, in dict order
    metrics,        \* HealthMonitor.servers: the ServerMetrics of every entry, by server name
    next_check,     \* the time the LoopingCall of the health checks runs next, per server
    selector,       \* ServerSelector.strategy and RoundRobinSelector.current_index
    works,          \* environment: the upstreams that answer
    attempt,        \* per client: the upstream server _forward_to_upstream waits for
    hev,            \* history: the health event or selection performed last, and the state it found
    succ,           \* history: successes recorded in a row, per server
    rotation,       \* history: the selections made in a row over an unchanged healthy set
    limiter,        \* RateLimiter: rate_per_ip, burst_per_ip, last_cleanup, stats
    buckets,        \* RateLimiter.buckets, by ip address
    pending_queries,\* DNSProxyProtocol.pending_queries, by query id
    written,        \* history: the datagrams the transport has written, in order
    datagram,       \* per request, the id and the sender of the datagram that brought it
    solo,           \* history: per client, its calls and the bucket it would have were it the only client
    lastCall,       \* history: the is_allowed call or datagram handled last
    checked,        \* the name handed to validate_dns_name and what the validator said
    arrived,        \* history: per request, the packet the listener received for it
    conn,           \* the TCP connection of DNSTCPProtocol: bytes, buffer, transport
    lifecycle       \* HealthMonitor._started, _health_check_loop, the reactor's calls for it

healthVars == <<config, servers, metrics, next_check, selector, works, attempt, hev, succ, rotation>>
limiterVars == <<limiter, buckets, pending_queries, written, datagram, solo, lastCall,
                 checked, arrived, conn, lifecycle>>

vars == <<now, max_size, cache, stats, last_cleanup, useOrder, lastSet, lastOp,
          remove_aaaa, req, upstreamCalls, origin, healthVars, limiterVars>>

cacheVars == <<max_size, cache, stats, last_cleanup, useOrder, lastSet, lastOp>>
resolverVars == <<remove_aaaa, req, upstreamCalls, origin>>

----------------------------------------------------------------------------
(* Bounds of the model *)

MaxTime == 2            \* the clock advances while it reads less than this
MaxMaxSize == 2         \* largest max_size a cache is constructed with
MaxLRUSize == 3         \* largest max_size of the cache whose eviction order is followed
MaxTTL == 2             \* largest ttl handed to set by a direct caller
MaxGets == 2            \* gets performed in one run (hits + misses)
MaxEvictions == 1       \* evictions performed in one run
MaxAnswers == 3         \* longest answer section the upstream returns
MaxRecorded == 4        \* query results and probes the health monitor records in one run
MaxSelections == 32     \* selections made in one run where the rotation is followed
MaxIndex == 3           \* selections made in one run where it is not
MaxUptime == 10         \* the clock of the health monitor advances while it reads less than this
MaxCalls == 25          \* is_allowed calls made in one run by a single client
MaxBurstClock == 110    \* ticks the clock of the single client reaches
MaxShared == 6          \* is_allowed calls made in one run by two clients
MaxClock == 2000        \* ticks the clock of the two clients reaches

(* Program constants *)

CACHE_CLEANUP_INTERVAL == 300
CACHE_DEFAULT_TTL == 300
CACHE_MAX_TTL == 86400
CACHE_NEGATIVE_TTL == 60

----------------------------------------------------------------------------
(* DNSCache *)

None == [hit |-> FALSE]

Keys(c) == {c[i].key : i \in DOMAIN c}

Entry(c, key) == c[CHOOSE i \in DOMAIN c : c[i].key = key]

DelKey(c, key) == SelectSeq(c, LAMBDA e : e.key # key)

\* OrderedDict.move_to_end(key)
move_to_end(c, key) == Append(DelKey(c, key), Entry(c, key))

\* _cleanup_expired: drops every entry with current_time > expiry
cleanup_expired(c, t) == SelectSeq(c, LAMBDA e : ~(t > e.expiry))

Fresh_Strict(e, t) == t < e.expiry

\* the test of get: an entry is served while time.time() <= expiry
Fresh(e, t) == t <= e.expiry

\* should_cleanup of get; rnd is the outcome of random.random() < CACHE_CLEANUP_PROBABILITY
should_cleanup(t, lc, rnd) == (t - lc > CACHE_CLEANUP_INTERVAL) \/ rnd

\* get(key) at time t: the cache, statistics and sweep time it leaves, and what it returns
CacheGet(c, st, lc, t, key, rnd) ==
    LET sweep == should_cleanup(t, lc, rnd)
        c1 == IF sweep THEN cleanup_expired(c, t) ELSE c
        lc1 == IF sweep THEN t ELSE lc
    IN  IF key \in Keys(c1) /\ Fresh(Entry(c1, key), t)
        THEN [cache |-> move_to_end(c1, key),
              stats |-> [st EXCEPT !.hits = @ + 1],
              last_cleanup |-> lc1,
              result |-> [hit |-> TRUE, data |-> Entry(c1, key).data]]
        ELSE [cache |-> DelKey(c1, key),
              stats |-> [st EXCEPT !.misses = @ + 1],
              last_cleanup |-> lc1,
              result |-> None]

RECURSIVE EvictLoop_Late(_, _)
EvictLoop_Late(c, m) == IF Len(c) > m /\ Len(c) > 0 THEN EvictLoop_Late(Tail(c), m) ELSE c

\* the eviction loop of set: popitem(last=False) while len >= max_size
RECURSIVE EvictLoop(_, _)
EvictLoop(c, m) == IF Len(c) >= m /\ Len(c) > 0 THEN EvictLoop(Tail(c), m) ELSE c

\* self._cache[key] = (data, expiry): an existing key keeps its position, a new one goes last
Assign(c, key, data, expiry) ==
    IF key \in Keys(c)
    THEN [i \in DOMAIN c |-> IF c[i].key = key
                             THEN [key |-> key, data |-> data, expiry |-> expiry]
                             ELSE c[i]]
    ELSE Append(c, [key |-> key, data |-> data, expiry |-> expiry])

CacheSet_NoClock(c, st, t, key, data, ttl, m) ==
    LET c1 == EvictLoop(c, m)
        c2 == Assign(c1, key, data, ttl)
    IN  [cache |-> c2,
         stats |-> [st EXCEPT !.evictions = @ + (Len(c) - Len(c1))],
         evicted |-> Keys(c) \ Keys(c2)]

\* set(key, data, ttl) at time t
CacheSet(c, st, t, key, data, ttl, m) ==
    LET c1 == EvictLoop(c, m)
        c2 == Assign(c1, key, data, t + ttl)
    IN  [cache |-> c2,
         stats |-> [st EXCEPT !.evictions = @ + (Len(c) - Len(c1))],
         evicted |-> Keys(c) \ Keys(c2)]    \* the keys this set removed from the store

----------------------------------------------------------------------------
(* History kept beside the cache *)

\* the ideal LRU list after the stored keys became ks and key k was used (k = "" : no use)
Used(order, ks, k) ==
    LET kept == SelectSeq(order, LAMBDA x : x \in ks /\ x # k)
    IN  IF k \in ks THEN Append(kept, k) ELSE kept

NoSet == [live |-> FALSE]

\* lastSet after keys gone were evicted or cleared
Forget(ls, gone) == [k \in DOMAIN ls |-> IF k \in gone THEN NoSet ELSE ls[k]]

----------------------------------------------------------------------------
(* DNS records and messages (twisted.names.dns) *)

dns_A == 1
dns_CNAME == 5
dns_TXT == 16
dns_AAAA == 28
dns_IN == 1
dns_CH == 3
dns_ESERVER == 2
dns_OK == 0

RR(n, t, ttl, p) == [name |-> n, type |-> t, cls |-> dns_IN, ttl |-> ttl, payload |-> p]

Message(ans, auth, add) ==
    [answers |-> ans, authority |-> auth, additional |-> add, rCode |-> dns_OK, trunc |-> FALSE]

OfType(s, t) == SelectSeq(s, LAMBDA rr : rr.type = t)

NotOfType(s, t) == SelectSeq(s, LAMBDA rr : rr.type # t)

----------------------------------------------------------------------------
(* DNSProxyResolver: the transformations of resolve_query *)

CacheKey_NoClass(q) == q.name \o ":" \o ToString(q.type)

\* cache_key = f"{query_name}:{query_type}:{query_class}"
CacheKey(q) == q.name \o ":" \o ToString(q.type) \o ":" \o ToString(q.cls)

_count_cnames(response) ==
    Len(OfType(response.answers, dns_CNAME)) + Len(OfType(response.authority, dns_CNAME))
        + Len(OfType(response.additional, dns_CNAME))

Flattened_KeepName(rr, query_name, t) ==
    [name |-> rr.name, type |-> t, cls |-> dns_IN, ttl |-> rr.ttl, payload |-> rr.payload]

\* dns.RRHeader(name=query_name, type=..., cls=dns.IN, ttl=rr.ttl, payload=rr.payload)
Flattened(rr, query_name, t) ==
    [name |-> query_name, type |-> t, cls |-> dns_IN, ttl |-> rr.ttl, payload |-> rr.payload]

FlattenAll(s, query_name, t) == [i \in DOMAIN s |-> Flattened(s[i], query_name, t)]

_flatten_cname_chain_KeepAAAA(response, query_name, ra) ==
    [response EXCEPT !.answers = FlattenAll(OfType(response.answers, dns_A), query_name, dns_A)
                                    \o FlattenAll(OfType(response.answers, dns_AAAA), query_name, dns_AAAA),
                     !.authority = << >>, !.additional = << >>]

_flatten_cname_chain(response, query_name, ra) ==
    LET a_records == OfType(response.answers, dns_A)
        aaaa_records == OfType(response.answers, dns_AAAA)
        flattened_records ==
            FlattenAll(a_records, query_name, dns_A)
                \o (IF ~ra THEN FlattenAll(aaaa_records, query_name, dns_AAAA) ELSE << >>)
    IN  IF a_records # << >> \/ aaaa_records # << >>
        THEN [response EXCEPT !.answers = flattened_records,
                              !.authority = << >>, !.additional = << >>]
        ELSE [response EXCEPT !.answers = << >>,
                              !.authority = << >>, !.additional = << >>]

_remove_aaaa_records_AnswersOnly(response) ==
    [response EXCEPT !.answers = NotOfType(@, dns_AAAA)]

_remove_aaaa_records(response) ==
    [response EXCEPT !.answers = NotOfType(@, dns_AAAA),
                     !.authority = NotOfType(@, dns_AAAA),
                     !.additional = NotOfType(@, dns_AAAA)]

_process_address_query_OnlyA(response, query_name, query_type, ra) ==
    IF _count_cnames(response) > 0
    THEN _flatten_cname_chain(response, query_name, ra)
    ELSE IF ra /\ query_type = dns_A THEN _remove_aaaa_records(response) ELSE response

_process_address_query(response, query_name, query_type, ra) ==
    IF _count_cnames(response) > 0
    THEN _flatten_cname_chain(response, query_name, ra)
    ELSE IF ra THEN _remove_aaaa_records(response) ELSE response

_process_non_address_query_AnswersOnly(response, ra) ==
    LET r == [response EXCEPT !.answers = NotOfType(@, dns_CNAME)]
    IN  IF ra THEN _remove_aaaa_records(r) ELSE r

_process_non_address_query(response, ra) ==
    LET r == [response EXCEPT !.answers = NotOfType(@, dns_CNAME),
                              !.authority = NotOfType(@, dns_CNAME),
                              !.additional = NotOfType(@, dns_CNAME)]
    IN  IF ra THEN _remove_aaaa_records(r) ELSE r

_handle_empty_response(response, ra) ==
    LET r == [response EXCEPT !.authority = NotOfType(@, dns_CNAME),
                              !.additional = NotOfType(@, dns_CNAME)]
    IN  IF ra THEN [r EXCEPT !.authority = NotOfType(@, dns_AAAA),
                             !.additional = NotOfType(@, dns_AAAA)]
        ELSE r

Min(a, b) == IF a <= b THEN a ELSE b

RECURSIVE MinTTL(_)
MinTTL(s) == IF Len(s) = 1 THEN s[1].ttl ELSE Min(s[1].ttl, MinTTL(Tail(s)))

_cache_response_ttl_NoCap(response) ==
    IF response.answers # << >> THEN MinTTL(response.answers) ELSE CACHE_NEGATIVE_TTL

\* the ttl _cache_response hands to cache.set when the caller gives none
_cache_response_ttl(response) ==
    IF response.answers # << >> THEN Min(MinTTL(response.answers), CACHE_MAX_TTL)
    ELSE CACHE_NEGATIVE_TTL

_create_error_response == [answers |-> << >>, authority |-> << >>, additional |-> << >>,
                           rCode |-> dns_ESERVER, trunc |-> FALSE]

\* the body of resolve_query after the upstream replied: the response it returns
\* and the ttl it caches it with
Transform(reply, q, ra) ==
    IF reply.answers # << >>
    THEN LET r == IF q.type \in {dns_A, dns_AAAA}
                  THEN _process_address_query(reply, q.name, q.type, ra)
                  ELSE _process_non_address_query(reply, ra)
         IN  [response |-> r, ttl |-> _cache_response_ttl(r)]
    ELSE [response |-> _handle_empty_response(reply, ra), ttl |-> CACHE_NEGATIVE_TTL]

----------------------------------------------------------------------------
(* Inputs *)

CacheKeys == {"k1", "k2", "k3"}
CacheValues == {"v1", "v2"}
TTLs == 1..MaxTTL

\* the clock advances by a second or past a whole cleanup interval
TimeSteps == {1, CACHE_CLEANUP_INTERVAL + 1}

Clients == {"c1", "c2"}
Addresses == {"ipA", "ipB"}
Names == {"a", "a:1"}
Queries == [name : Names, type : {dns_A, dns_AAAA, dns_CNAME, dns_TXT}, cls : {dns_IN, dns_CH}]

\* the name of the statistics query, and a query of a type (HTTPS) that is
\* not among the allowed ones
StatsName == "_dns-proxy-stats.local"
StatsQuery == [name |-> StatsName, type |-> dns_TXT, cls |-> dns_IN]
dns_HTTPS == 65
HTTPSQuery == [name |-> "a", type |-> dns_HTTPS, cls |-> dns_IN]

QueryKeys == {CacheKey(q) : q \in Queries \cup {StatsQuery, HTTPSQuery}}

\* records the upstream answers with
CN == RR("a", dns_CNAME, 1, "t")
A1 == RR("t", dns_A, 2, "ip1")
A2 == RR("t", dns_A, 1, "ip2")
V6 == RR("t", dns_AAAA, 2, "ip6")
AnswerPool == {CN, A1, A2, V6}
AnswerSeqs == UNION {[1..n -> AnswerPool] : n \in 0..MaxAnswers}
ExtraSections == {<< >>, <<CN>>, <<V6>>}
Replies == {Message(ans, auth, add) : ans \in AnswerSeqs, auth \in ExtraSections, add \in ExtraSections}

\* what the two clients of Spec ask: one query and the three that differ from it
\* in exactly one field of (name, type, class)
ClientQueries == {[name |-> "a", type |-> dns_A, cls |-> dns_IN],
                  [name |-> "a:1", type |-> dns_A, cls |-> dns_IN],
                  [name |-> "a", type |-> dns_AAAA, cls |-> dns_IN],
                  [name |-> "a", type |-> dns_A, cls |-> dns_CH]}

\* what their upstream answers: a plain address, a CNAME chain, mixed families
\* with glue, a bare CNAME, an IPv6-only answer, and no answer at all
CommonReplies == {Message(<<A1>>, << >>, << >>),
                  Message(<<CN, A1, A2>>, << >>, << >>),
                  Message(<<A1, V6>>, << >>, <<V6>>),
                  Message(<<CN>>, << >>, << >>),
                  Message(<<V6>>, << >>, << >>),
                  Message(<< >>, <<CN>>, << >>)}

----------------------------------------------------------------------------
(* ServerMetrics and HealthMonitor (dns_proxy/health/metrics.py, monitor.py) *)

HEALTH_CHECK_INTERVAL == 30
HEALTH_CHECK_STARTUP_DELAY == 5
HEALTH_CHECK_FAILURE_THRESHOLD == 3
HEALTH_CHECK_RECOVERY_THRESHOLD == 2
RESPONSE_WINDOW == 100      \* deque(maxlen=100) of response times
FALLBACK_COUNT == 3         \* select_multiple_servers(all_servers, count=3)

NoTime == -1                \* None, for an Optional[float] time or duration

SUCCESS == "success"
TIMEOUT == "timeout"
ERROR == "error"
REFUSED == "refused"
QueryResult == {SUCCESS, TIMEOUT, ERROR, REFUSED}

\* a fresh ServerMetrics; times are in seconds, response times in milliseconds
ServerMetrics == [total_queries |-> 0, successful_queries |-> 0, failed_queries |-> 0,
                  consecutive_failures |-> 0, last_success_time |-> NoTime,
                  is_healthy |-> TRUE, marked_down_at |-> NoTime,
                  response_times |-> << >>]

\* deque.append on a deque of maxlen RESPONSE_WINDOW
Sample(rts, response_time) ==
    IF Len(rts) = RESPONSE_WINDOW THEN Append(Tail(rts), response_time)
                                  ELSE Append(rts, response_time)

record_query_SuccessOnly(m, result, response_time, t) ==
    IF result = SUCCESS
    THEN [m EXCEPT !.total_queries = @ + 1, !.successful_queries = @ + 1,
                   !.consecutive_failures = 0, !.last_success_time = t,
                   !.response_times = IF response_time = NoTime THEN @
                                      ELSE Sample(@, response_time),
                   !.is_healthy = TRUE, !.marked_down_at = NoTime]
    ELSE m

record_query(m, result, response_time, t) ==
    IF result = SUCCESS
    THEN [m EXCEPT !.total_queries = @ + 1, !.successful_queries = @ + 1,
                   !.consecutive_failures = 0, !.last_success_time = t,
                   !.response_times = IF response_time = NoTime THEN @
                                      ELSE Sample(@, response_time),
                   \* "Mark healthy if was unhealthy"
                   !.is_healthy = TRUE, !.marked_down_at = NoTime]
    ELSE [m EXCEPT !.total_queries = @ + 1, !.failed_queries = @ + 1,
                   !.consecutive_failures = @ + 1]

mark_unhealthy(m, t) ==
    IF m.is_healthy THEN [m EXCEPT !.is_healthy = FALSE, !.marked_down_at = t] ELSE m

_count_recent_successes(m, t, cfg) ==
    IF m.consecutive_failures = 0 /\ m.last_success_time # NoTime
    THEN (t - m.last_success_time) \div cfg.interval
    ELSE 0

\* the recovery test both the probe and record_query_result make after a success
CheckRecovery(m, t, cfg) ==
    IF ~m.is_healthy /\ m.consecutive_failures = 0
          /\ _count_recent_successes(m, t, cfg) >= cfg.recovery_threshold
    THEN [m EXCEPT !.is_healthy = TRUE, !.marked_down_at = NoTime]
    ELSE m

_handle_check_failure_Early(m, t, cfg) ==
    IF m.is_healthy /\ m.consecutive_failures + 1 >= cfg.failure_threshold
    THEN mark_unhealthy(m, t) ELSE m

_handle_check_failure(m, t, cfg) ==
    IF m.is_healthy /\ m.consecutive_failures >= cfg.failure_threshold
    THEN mark_unhealthy(m, t) ELSE m

\* _check_server_health from the reply (or failure) of the probe query on
_check_server_health(m, result, response_time, t, cfg) ==
    IF result = SUCCESS
    THEN CheckRecovery(record_query(m, SUCCESS, response_time, t), t, cfg)
    ELSE _handle_check_failure(record_query(m, result, NoTime, t), t, cfg)

record_query_result_NoGrace(ms, server_name, result, response_time, t, cfg) ==
    IF server_name \notin DOMAIN ms THEN ms
    ELSE LET m == record_query(ms[server_name], result, response_time, t)
         IN  [ms EXCEPT ![server_name] =
                 IF result = SUCCESS THEN CheckRecovery(m, t, cfg)
                 ELSE _handle_check_failure(m, t, cfg)]

record_query_result(ms, server_name, result, response_time, t, cfg) ==
    IF server_name \notin DOMAIN ms THEN ms
    ELSE LET m == record_query(ms[server_name], result, response_time, t)
         IN  [ms EXCEPT ![server_name] =
                 IF result = SUCCESS THEN CheckRecovery(m, t, cfg)
                 ELSE IF t - cfg.startup_time < HEALTH_CHECK_STARTUP_DELAY THEN m
                 ELSE _handle_check_failure(m, t, cfg)]

----------------------------------------------------------------------------
(* ServerSelector and its strategies (dns_proxy/health/selector.py) *)

ROUND_ROBIN == "round_robin"
LOWEST_LATENCY == "lowest_latency"
WEIGHTED == "weighted"
FAILOVER == "failover"
RANDOM == "random"
LEAST_QUERIES == "least_queries"
SelectionStrategy == {ROUND_ROBIN, LOWEST_LATENCY, WEIGHTED, FAILOVER, RANDOM, LEAST_QUERIES}

\* an UpstreamServer of the configuration
UpstreamServer(n, a, p, w, hc) ==
    [name |-> n, address |-> a, priority |-> p, weight |-> w, health_check |-> hc]

\* the order of Python's str comparison on the server names of the model
NameRank(n) == CHOOSE i \in 1..3 : <<"u1", "u2", "u3">>[i] = n

RECURSIVE Sum(_)
Sum(s) == IF s = << >> THEN 0 ELSE Head(s) + Sum(Tail(s))

Elems(s) == {s[i] : i \in DOMAIN s}

\* sorted(servers, key)[0]: sorted is stable, so the first of the smallest
First(list, Less(_, _)) ==
    list[CHOOSE i \in DOMAIN list :
            /\ \A j \in DOMAIN list : ~Less(list[j], list[i])
            /\ \A j \in 1..(i - 1) : Less(list[i], list[j])]

\* ServerMetrics.average_response_time as the fraction num / den of
\* milliseconds; none when there is no sample
average_response_time(m) ==
    [none |-> m.response_times = << >>,
     num |-> Sum(m.response_times), den |-> Len(m.response_times)]

\* the key "average_response_time or float('inf')": None and 0.0 are infinite
LatencyInf(m) == average_response_time(m).none \/ average_response_time(m).num = 0

LatencyLess(ma, mb) ==
    /\ ~LatencyInf(ma)
    /\ \/ LatencyInf(mb)
       \/ average_response_time(ma).num * average_response_time(mb).den
             < average_response_time(mb).num * average_response_time(ma).den

\* ServerMetrics.health_score as the fraction num / den
health_score(m) ==
    LET total == m.total_queries
        rate == IF total = 0 THEN [num |-> 1, den |-> 1]
                ELSE [num |-> m.successful_queries, den |-> total]
        avg == average_response_time(m)
        L == avg.den
        S == avg.num
    IN  IF ~m.is_healthy THEN [num |-> 0, den |-> 1]
        ELSE IF avg.none \/ S <= 100 * L THEN rate
        ELSE IF (S - 100 * L) * 2 >= 900 * L
             THEN [num |-> rate.num, den |-> rate.den * 2]
        ELSE [num |-> rate.num * (1000 * L - S), den |-> rate.den * 900 * L]

ScoreLess(a, b) == a.num * b.den < b.num * a.den

\* the servers one call of selector.select(list) can return
select_IgnoresPriority(strategy, list, ms, index) ==
    IF strategy = ROUND_ROBIN THEN {list[(index % Len(list)) + 1]}
    ELSE IF strategy = FAILOVER THEN {list[1]}
    ELSE Elems(list)

select(strategy, list, ms, index) ==
    IF strategy = ROUND_ROBIN THEN {list[(index % Len(list)) + 1]}
    ELSE IF strategy = LOWEST_LATENCY
         THEN {First(list, LAMBDA a, b : LatencyLess(ms[a.name], ms[b.name]))}
    ELSE IF strategy = WEIGHTED
         THEN IF Sum([i \in DOMAIN list |-> list[i].weight]) = 0
              THEN Elems(list)       \* random.choice
              \* random.uniform(0, total_weight): the first server when it
              \* draws 0.0, else a server of positive weight
              ELSE {list[1]} \cup {s \in Elems(list) : s.weight > 0}
    ELSE IF strategy = FAILOVER
         THEN {First(list, LAMBDA a, b :
                   \/ a.priority < b.priority
                   \/ a.priority = b.priority /\ NameRank(a.name) < NameRank(b.name))}
    ELSE IF strategy = RANDOM THEN Elems(list)
    ELSE {First(list, LAMBDA a, b :
              ms[a.name].total_queries < ms[b.name].total_queries)}

Advance_Stuck(strategy, index) == index

\* RoundRobinSelector.select advances current_index; no other strategy has state
Advance(strategy, index) == IF strategy = ROUND_ROBIN THEN index + 1 ELSE index

Healthy(ss, ms) == SelectSeq(ss, LAMBDA s : ms[s.name].is_healthy)

NoServer == ""

\* select_server: the (address, current_index) pairs one call can end with
select_server_AllServers(ss, ms, sel) ==
    IF ss = << >> THEN {[picked |-> NoServer, index |-> sel.current_index]}
    ELSE {[picked |-> s.address, index |-> Advance(sel.strategy, sel.current_index)] :
             s \in select(sel.strategy, ss, ms, sel.current_index)}

select_server(ss, ms, sel) ==
    LET healthy_servers == Healthy(ss, ms)
    IN  IF healthy_servers = << >>
        THEN IF ss # << >>
             \* sorted(all_servers, key=health_score, reverse=True)[0]
             THEN {[picked |-> First(ss, LAMBDA a, b :
                                   ScoreLess(health_score(ms[b.name]),
                                             health_score(ms[a.name]))).address,
                    index |-> sel.current_index]}
             ELSE {[picked |-> NoServer, index |-> sel.current_index]}
        ELSE {[picked |-> s.address, index |-> Advance(sel.strategy, sel.current_index)] :
                 s \in select(sel.strategy, healthy_servers, ms, sel.current_index)}

RECURSIVE select_loop(_, _, _, _, _, _, _)
select_loop(strategy, pool, ms, index, used_servers, n, selected) ==
    LET available == SelectSeq(pool, LAMBDA s : s.name \notin used_servers)
    IN  IF n = 0 \/ available = << >>
        THEN {[picked |-> selected, index |-> index]}
        ELSE UNION {select_loop(strategy, pool, ms, Advance(strategy, index),
                                used_servers \cup {s.name}, n - 1,
                                Append(selected, s.address)) :
                       s \in select(strategy, available, ms, index)}

\* select_multiple_servers: the (address list, current_index) pairs one call
\* can end with
select_multiple_servers(ss, ms, sel, count) ==
    LET healthy_servers == IF Healthy(ss, ms) = << >> THEN ss ELSE Healthy(ss, ms)
    IN  select_loop(sel.strategy, healthy_servers, ms, sel.current_index, {},
                    Min(count, Len(healthy_servers)), << >>)

\* the server _forward_to_upstream finds for the selected address
ServerAt(ss, address) == ss[CHOOSE i \in DOMAIN ss :
                               /\ ss[i].address = address
                               /\ \A j \in 1..(i - 1) : ss[j].address # address]

----------------------------------------------------------------------------
(* TokenBucket and RateLimiter (dns_proxy/rate_limiter.py).  Where a rate    *)
(* limiter is driven the clock counts ticks, TicksPerSecond of them to the   *)
(* second, and a bucket holds its tokens in TicksPerSecond-ths of a token,   *)
(* so that elapsed * rate is exact.                                          *)

TicksPerSecond == 10 * 100

RATE_LIMIT_PER_IP == 100
RATE_LIMIT_BURST == 200

OneToken == TicksPerSecond

\* TokenBucket(rate, burst) constructed at time t
TokenBucket(rate, burst, t) ==
    [rate |-> rate, burst |-> burst, tokens |-> burst * OneToken, last_update |-> t]

consume_NoRefill(b, t) ==
    IF b.tokens >= OneToken
    THEN [bucket |-> [b EXCEPT !.tokens = @ - OneToken, !.last_update = t], allowed |-> TRUE]
    ELSE [bucket |-> [b EXCEPT !.last_update = t], allowed |-> FALSE]

\* TokenBucket.consume() at time t
consume(b, t) ==
    LET elapsed == t - b.last_update
        tokens == Min(b.burst * OneToken, b.tokens + elapsed * b.rate)
    IN  IF tokens >= OneToken
        THEN [bucket |-> [b EXCEPT !.tokens = tokens - OneToken, !.last_update = t],
              allowed |-> TRUE]
        ELSE [bucket |-> [b EXCEPT !.tokens = tokens, !.last_update = t],
              allowed |-> FALSE]

Restrict(f, S) == [x \in S |-> f[x]]

_cleanup_if_needed_DropsBusy(lim, bks, t) ==
    IF t - lim.last_cleanup < lim.cleanup_interval * TicksPerSecond
    THEN [limiter |-> lim, buckets |-> bks]
    ELSE [limiter |-> [lim EXCEPT !.last_cleanup = t],
          buckets |-> Restrict(bks, {ip \in DOMAIN bks :
                                       bks[ip].tokens >= bks[ip].burst * OneToken
                                       \/ bks[ip].tokens < OneToken})]

\* RateLimiter._cleanup_if_needed at time t
_cleanup_if_needed(lim, bks, t) ==
    IF t - lim.last_cleanup < lim.cleanup_interval * TicksPerSecond
    THEN [limiter |-> lim, buckets |-> bks]
    ELSE [limiter |-> [lim EXCEPT !.last_cleanup = t],
          buckets |-> Restrict(bks, {ip \in DOMAIN bks :
                                       bks[ip].tokens < bks[ip].burst * OneToken})]

is_allowed_BlockedUncounted(lim, bks, ip_address, t) ==
    LET swept == _cleanup_if_needed(lim, bks, t)
        had == swept.buckets
        got == IF ip_address \in DOMAIN had THEN had
               ELSE [ip \in DOMAIN had \cup {ip_address} |->
                        IF ip = ip_address
                        THEN TokenBucket(lim.rate_per_ip, lim.burst_per_ip, t)
                        ELSE had[ip]]
        c == consume(got[ip_address], t)
        st == swept.limiter.stats
    IN  [limiter |-> [swept.limiter EXCEPT !.stats =
                         IF c.allowed THEN [st EXCEPT !.allowed = @ + 1]
                         ELSE [st EXCEPT !.blocked_ip[ip_address] = @ + 1]],
         buckets |-> [got EXCEPT ![ip_address] = c.bucket],
         allowed |-> c.allowed]

\* RateLimiter.is_allowed(ip_address) at time t
is_allowed(lim, bks, ip_address, t) ==
    LET swept == _cleanup_if_needed(lim, bks, t)
        had == swept.buckets
        got == IF ip_address \in DOMAIN had THEN had
               ELSE [ip \in DOMAIN had \cup {ip_address} |->
                        IF ip = ip_address
                        THEN TokenBucket(lim.rate_per_ip, lim.burst_per_ip, t)
                        ELSE had[ip]]
        c == consume(got[ip_address], t)
        st == swept.limiter.stats
    IN  [limiter |-> [swept.limiter EXCEPT !.stats =
                         IF c.allowed THEN [st EXCEPT !.allowed = @ + 1]
                         ELSE [st EXCEPT !.blocked = @ + 1,
                                         !.blocked_ip[ip_address] = @ + 1]],
         buckets |-> [got EXCEPT ![ip_address] = c.bucket],
         allowed |-> c.allowed]

----------------------------------------------------------------------------
(* The health monitor, the selector and the rate limiter where no           *)
(* specification drives them                                                 *)

\* HealthCheckConfig() with the time the monitor was constructed at
HealthCheckConfig(t) ==
    [enabled |-> TRUE, interval |-> HEALTH_CHECK_INTERVAL,
     failure_threshold |-> HEALTH_CHECK_FAILURE_THRESHOLD,
     recovery_threshold |-> HEALTH_CHECK_RECOVERY_THRESHOLD,
     startup_time |-> t]

\* ServerSelector(strategy)
ServerSelector(strategy) == [strategy |-> strategy, current_index |-> 0]

NoEvent == [kind |-> "none", server |-> NoServer, result |-> "", picked |-> << >>,
            was_healthy |-> TRUE, failures |-> 0, tried |-> << >>]
NoRun == [followed |-> FALSE, healthy |-> {}, picks |-> << >>, start |-> 0]

NoHealthMonitor ==
    /\ config = HealthCheckConfig(0)
    /\ servers = << >>
    /\ metrics = << >>
    /\ next_check = << >>
    /\ selector = ServerSelector(WEIGHTED)
    /\ works = {}
    /\ attempt = [c \in Clients |-> NoServer]
    /\ hev = NoEvent
    /\ succ = << >>
    /\ rotation = NoRun

\* RateLimiter(rate_per_ip, burst_per_ip, cleanup_interval) constructed at time t
RateLimiter(rate_per_ip, burst_per_ip, cleanup_interval, t) ==
    [rate_per_ip |-> rate_per_ip, burst_per_ip |-> burst_per_ip,
     cleanup_interval |-> cleanup_interval, last_cleanup |-> t,
     stats |-> [allowed |-> 0, blocked |-> 0, blocked_ip |-> [ip \in Addresses |-> 0]]]

NoDatagram == [id |-> 0, addr |-> ""]

NoCall == [kind |-> "none", ip |-> "", allowed |-> FALSE, alone |-> FALSE, at |-> 0,
           since |-> 0]

NoQuery == [name |-> "", type |-> 0, cls |-> 0]

\* no name under validation, no packet received, no TCP connection
NoCheck == [name |-> << >>, verdict |-> "none"]

NoPacket == [size |-> 0, parses |-> FALSE, id |-> 0, count |-> 0, query |-> NoQuery]

NoConnection == [state |-> "none", unread |-> << >>, buffer |-> << >>, sent |-> << >>]

\* HealthMonitor.__init__: no LoopingCall, not started; nothing scheduled, no
\* round of checks under way
NoLifecycle == [_started |-> FALSE, loop |-> "none", created |-> 0, starttime |-> NoTime,
                delayed |-> << >>, call |-> NoTime, rounds |-> << >>,
                halted |-> FALSE, late |-> FALSE]

WireAtRest ==
    /\ checked = NoCheck
    /\ arrived = [c \in Clients |-> NoPacket]
    /\ conn = NoConnection
    /\ lifecycle = NoLifecycle

NoRateLimiter ==
    /\ limiter = RateLimiter(RATE_LIMIT_PER_IP, RATE_LIMIT_BURST, CACHE_CLEANUP_INTERVAL, 0)
    /\ buckets = << >>
    /\ pending_queries = << >>
    /\ written = << >>
    /\ datagram = [c \in Clients |-> NoDatagram]
    /\ solo = << >>
    /\ lastCall = NoCall
    /\ WireAtRest

----------------------------------------------------------------------------
(* The length of a message on the wire, and what sending it over UDP does to *)
(* the message object                                                         *)

DNS_UDP_MAX_SIZE == 512

\* a TXT record whose text is one character-string of the full 255 octets
LongText == "x255"
TX == RR("a", dns_TXT, 2, LongText)

\* len(message.toStr()) in octets, as RFC 1035 lays a message out without
\* name compression: a header of 12, the question (name, type, class) and
\* every record (name, type, class, ttl, rdlength, rdata); the names of the
\* model are one label of one octet, 3 octets on the wire, but for the name
\* of the statistics query
NameLength(n) == IF n = StatsName THEN 1 + 16 + 1 + 5 + 1 ELSE 1 + 1 + 1

RDLength(rr) ==
    IF rr.type = dns_A THEN 4
    ELSE IF rr.type = dns_AAAA THEN 16
    ELSE IF rr.type = dns_TXT THEN (IF rr.payload = LongText THEN 1 + 255 ELSE 1 + 1)
    ELSE NameLength(rr.payload)

RecordLength(rr) == NameLength(rr.name) + 10 + RDLength(rr)

toStr_len(response, queries) ==
    12 + (NameLength(queries.name) + 4)
       + Sum([i \in DOMAIN response.answers |-> RecordLength(response.answers[i])])
       + Sum([i \in DOMAIN response.authority |-> RecordLength(response.authority[i])])
       + Sum([i \in DOMAIN response.additional |-> RecordLength(response.additional[i])])

\* while len(response_data) > DNS_UDP_MAX_SIZE and response.additional:
\* response.additional.pop()
RECURSIVE pop_additional(_, _)
pop_additional(response, queries) ==
    IF toStr_len(response, queries) > DNS_UDP_MAX_SIZE /\ response.additional # << >>
    THEN pop_additional([response EXCEPT !.additional = SubSeq(@, 1, Len(@) - 1)], queries)
    ELSE response

\* the response object as _send_response leaves it when it sends it over
\* UDP: one too long for a datagram has its truncated flag set and has lost
\* additional records
sent_over_udp(response, queries) ==
    IF toStr_len(response, queries) > DNS_UDP_MAX_SIZE
    THEN [pop_additional(response, queries) EXCEPT !.trunc = TRUE]
    ELSE response

\* the cache after the object stored under key has become the given one
Aliased(c, key, object) ==
    [i \in DOMAIN c |-> IF c[i].key = key THEN [c[i] EXCEPT !.data = object] ELSE c[i]]

----------------------------------------------------------------------------
(* Cache operations as state changes, with the history they leave *)

NoOp == [op |-> "none", key |-> "", result |-> None, evicted |-> {}]

\* get(key); with udp the caller is the UDP listener, which sends the object
\* returned on a hit to the client that asked the question queries
DoGet(key, rnd, udp, queries) ==
    LET g == CacheGet(cache, stats, last_cleanup, now, key, rnd)
    IN  /\ stats.hits + stats.misses < MaxGets
        /\ cache' = IF udp /\ g.result.hit
                    THEN Aliased(g.cache, key, sent_over_udp(g.result.data, queries))
                    ELSE g.cache
        /\ stats' = g.stats
        /\ last_cleanup' = g.last_cleanup
        /\ useOrder' = Used(useOrder, Keys(g.cache), IF g.result.hit THEN key ELSE "")
        /\ lastOp' = [op |-> "get", key |-> key, result |-> g.result, evicted |-> {}]
        /\ UNCHANGED <<max_size, lastSet>>

\* set(key, data, ttl); with udp the caller goes on to send the object it
\* has stored to the client that asked the question queries
DoSet(key, data, ttl, udp, queries) ==
    LET s == CacheSet(cache, stats, now, key, data, ttl, max_size)
    IN  /\ s.stats.evictions <= MaxEvictions
        /\ cache' = IF udp THEN Aliased(s.cache, key, sent_over_udp(data, queries))
                    ELSE s.cache
        /\ stats' = s.stats
        /\ useOrder' = Used(useOrder, Keys(s.cache), key)
        /\ lastSet' = [Forget(lastSet, s.evicted) EXCEPT
                          ![key] = [live |-> TRUE, data |-> data, until |-> now + ttl]]
        /\ lastOp' = [op |-> "set", key |-> key, result |-> None, evicted |-> s.evicted]
        /\ UNCHANGED <<max_size, last_cleanup>>

DoClear ==
    /\ cache' = << >>
    /\ useOrder' = << >>
    /\ lastSet' = Forget(lastSet, Keys(cache))
    /\ lastOp' = [op |-> "clear", key |-> "", result |-> None, evicted |-> {}]
    /\ UNCHANGED <<max_size, stats, last_cleanup>>

Tick(d) ==
    /\ now < MaxTime
    /\ now' = now + d
    /\ lastOp' = NoOp
    /\ UNCHANGED <<max_size, cache, stats, last_cleanup, useOrder, lastSet, resolverVars>>
    /\ UNCHANGED <<healthVars, limiterVars>>

----------------------------------------------------------------------------
(* SpecCache: a caller of DNSCache *)

NoReply == Message(<< >>, << >>, << >>)
\* a resolve_query call: where it stands (pc), what it returns (response), and
\* as history how it was answered (via: "cache", "upstream" or "error"), the
\* upstream reply its response was made from and the query that had it cached,
\* when it began, which calls had returned by then, and until when it is cached
Idle == [pc |-> "idle", query |-> NoQuery, response |-> NoReply, reply |-> NoReply,
         via |-> "", writer |-> NoQuery, start |-> 0, after |-> {}, cachedUntil |-> 0]
NoOrigin == [writers |-> {}, last |-> NoQuery, reply |-> NoReply]

InitDNSCache ==
    /\ now = 0
    /\ cache = << >>
    /\ stats = [hits |-> 0, misses |-> 0, evictions |-> 0]
    /\ last_cleanup = 0
    /\ useOrder = << >>
    /\ lastOp = NoOp

InitCache ==
    /\ InitDNSCache
    /\ NoHealthMonitor
    /\ NoRateLimiter
    /\ max_size \in 1..MaxMaxSize
    /\ lastSet = [k \in CacheKeys |-> NoSet]
    /\ remove_aaaa = TRUE
    /\ req = [c \in Clients |-> Idle]
    /\ upstreamCalls = [k \in CacheKeys |-> 0]
    /\ origin = [k \in CacheKeys |-> NoOrigin]

Get(key) == /\ \E rnd \in BOOLEAN : DoGet(key, rnd, FALSE, NoQuery)
            /\ UNCHANGED <<now, resolverVars, healthVars, limiterVars>>

Set(key, data, ttl) == /\ DoSet(key, data, ttl, FALSE, NoQuery)
                       /\ UNCHANGED <<now, resolverVars, healthVars, limiterVars>>

Clear == /\ DoClear
         /\ UNCHANGED <<now, resolverVars, healthVars, limiterVars>>

NextCache ==
    \/ \E key \in CacheKeys : Get(key)
    \/ \E key \in CacheKeys, data \in CacheValues, ttl \in TTLs : Set(key, data, ttl)
    \/ Clear
    \/ \E d \in TimeSteps : Tick(d)

SpecCache == InitCache /\ [][NextCache]_vars

----------------------------------------------------------------------------
(* SpecLRU: a caller that stores under the default ttl and reads back; the  *)
(* clock stands still, so that only the order of uses decides what is kept  *)

LRUKeys == {"k1", "k2", "k3", "k4"}

InitLRU ==
    /\ InitDNSCache
    /\ NoHealthMonitor
    /\ NoRateLimiter
    /\ max_size = MaxLRUSize
    /\ lastSet = [k \in LRUKeys |-> NoSet]
    /\ remove_aaaa = TRUE
    /\ req = [c \in Clients |-> Idle]
    /\ upstreamCalls = [k \in LRUKeys |-> 0]
    /\ origin = [k \in LRUKeys |-> NoOrigin]

\* set(key, data): ttl is None and becomes default_ttl
SetDefault(key, data) == Set(key, data, CACHE_DEFAULT_TTL)

NextLRU ==
    \/ \E key \in LRUKeys : Get(key)
    \/ \E key \in LRUKeys : SetDefault(key, "v1")

SpecLRU == InitLRU /\ [][NextLRU]_vars

----------------------------------------------------------------------------
(* Properties of the cache *)

\* C7 as stated: after set(k, v, ttl) at time s, not followed by a set, clear or
\* eviction of k, get(k) returns v at every now < s + ttl and None at every
\* now >= s + ttl.
C7_ExpiryExclusive ==
    (lastOp.op = "get" /\ lastSet[lastOp.key].live) =>
        IF now < lastSet[lastOp.key].until
        THEN lastOp.result = [hit |-> TRUE, data |-> lastSet[lastOp.key].data]
        ELSE lastOp.result = None

\* C7 amended: after set(k, v, ttl) at time s, not followed by a set, clear or
\* eviction of k, get(k) returns v at every now <= s + ttl and None at every
\* now > s + ttl, whether or not the sweep runs; the instant s + ttl itself is
\* still served.
C7_ExpiryInclusive ==
    (lastOp.op = "get" /\ lastSet[lastOp.key].live) =>
        IF now <= lastSet[lastOp.key].until
        THEN lastOp.result = [hit |-> TRUE, data |-> lastSet[lastOp.key].data]
        ELSE lastOp.result = None

\* a get served at the very instant its entry expires
C7_Witness ==
    /\ lastOp.op = "get"
    /\ lastSet[lastOp.key].live
    /\ now = lastSet[lastOp.key].until
    /\ lastOp.result.hit

\* C8: the cache never holds more than max_size entries.
C8_CacheBound == Len(cache) <= max_size

\* a full cache that has already evicted
C8_Witness == Len(cache) = max_size /\ stats.evictions > 0 /\ lastOp.op = "set"

\* C9: whenever set evicts, the key it removes is the least recently used of the
\* stored keys (the key being set aside), a use being the latest set or the
\* latest get that hit: no key used more recently than another goes before it.
C9_EvictsLeastRecentlyUsed ==
    [][\A k \in lastOp'.evicted :
          LET others == SelectSeq(useOrder, LAMBDA x : x # lastOp'.key)
          IN  others # << >> /\ k = Head(others)]_vars

----------------------------------------------------------------------------
(* DNSProxyResolver.resolve_query, in the two steps the reactor runs it in:  *)
(* up to the wait for the upstream, and from the upstream's reply to the end *)

InitResolver ==
    /\ InitDNSCache
    /\ NoHealthMonitor
    /\ NoRateLimiter
    /\ max_size \in 1..MaxMaxSize
    /\ lastSet = [k \in QueryKeys |-> NoSet]
    /\ remove_aaaa \in BOOLEAN
    /\ req = [c \in Clients |-> Idle]
    /\ upstreamCalls = [k \in QueryKeys |-> 0]
    /\ origin = [k \in QueryKeys |-> NoOrigin]

Finished(c) == req[c].pc = "done"

\* resolve_query up to the first yield: the cache lookup, answered at once on a
\* hit, forwarded to the upstream on a miss
DoQuery(c, q, udp) ==
    /\ req[c].pc = "idle"
    /\ \E rnd \in BOOLEAN : DoGet(CacheKey(q), rnd, udp, q)
    /\ LET key == CacheKey(q)
           cached_response == lastOp'.result
           call == [Idle EXCEPT !.query = q, !.start = now,
                                !.after = {d \in Clients : Finished(d)}]
       IN  IF cached_response.hit
           THEN /\ req' = [req EXCEPT ![c] =
                              [call EXCEPT !.pc = "done", !.via = "cache",
                                           !.response = cached_response.data,
                                           !.reply = origin[key].reply,
                                           !.writer = origin[key].last]]
                /\ UNCHANGED upstreamCalls
           ELSE /\ req' = [req EXCEPT ![c] = [call EXCEPT !.pc = "upstream"]]
                /\ upstreamCalls' = [upstreamCalls EXCEPT ![key] = @ + 1]
    /\ UNCHANGED <<now, remove_aaaa, origin>>

Query(c, q) == DoQuery(c, q, FALSE) /\ UNCHANGED <<healthVars, limiterVars>>

\* resolve_query resumed with the upstream's reply: transform, cache, return
DoUpstreamReply(c, m, udp) ==
    /\ req[c].pc = "upstream"
    /\ LET q == req[c].query
           key == CacheKey(q)
           t == Transform(m, q, remove_aaaa)
       IN  /\ DoSet(key, t.response, t.ttl, udp, q)
           /\ req' = [req EXCEPT ![c].pc = "done", ![c].via = "upstream",
                                 ![c].response = t.response,
                                 ![c].reply = m, ![c].writer = q,
                                 ![c].cachedUntil = now + t.ttl]
           /\ origin' = [origin EXCEPT ![key] = [writers |-> @.writers \cup {q},
                                                 last |-> q, reply |-> m]]
    /\ UNCHANGED <<now, remove_aaaa, upstreamCalls>>

UpstreamReply(c, m) == DoUpstreamReply(c, m, FALSE) /\ UNCHANGED <<healthVars, limiterVars>>

DoUpstreamError_Cached(c) ==
    /\ req[c].pc = "upstream"
    /\ req' = [req EXCEPT ![c].pc = "done", ![c].via = "error",
                          ![c].response = _create_error_response]
    /\ DoSet(CacheKey(req[c].query), _create_error_response, CACHE_NEGATIVE_TTL,
             FALSE, NoQuery)
    /\ UNCHANGED <<now, remove_aaaa, upstreamCalls, origin>>

\* resolve_query resumed with a failure of the upstream, or any other
\* exception raised before cache.set: the except clause returns SERVFAIL,
\* nothing cached
DoUpstreamError(c) ==
    /\ req[c].pc = "upstream"
    /\ req' = [req EXCEPT ![c].pc = "done", ![c].via = "error",
                          ![c].response = _create_error_response]
    /\ lastOp' = NoOp
    /\ UNCHANGED <<now, max_size, cache, stats, last_cleanup, useOrder, lastSet,
                   remove_aaaa, upstreamCalls, origin>>

UpstreamError(c) == DoUpstreamError(c) /\ UNCHANGED <<healthVars, limiterVars>>

Next ==
    \/ \E c \in Clients, q \in ClientQueries : Query(c, q)
    \/ \E c \in Clients, m \in CommonReplies : UpstreamReply(c, m)
    \/ \E c \in Clients : UpstreamError(c)
    \/ \E d \in TimeSteps : Tick(d)

Spec == InitResolver /\ [][Next]_vars

----------------------------------------------------------------------------
(* SpecFlatten: one query, answered by any reply the upstream can give, and  *)
(* then asked again by a second client                                       *)

FirstQuery(q) == Query("c1", q)

SameQuery == Finished("c1") /\ Query("c2", req["c1"].query)

NextFlatten ==
    \/ \E q \in Queries : FirstQuery(q)
    \/ SameQuery
    \/ \E c \in Clients, m \in Replies : UpstreamReply(c, m)
    \/ \E c \in Clients : UpstreamError(c)

SpecFlatten == InitResolver /\ [][NextFlatten]_vars

----------------------------------------------------------------------------
(* Properties of resolve_query *)

\* the call of client c returned a response made from an upstream reply,
\* freshly or out of the cache
Served(c) == Finished(c) /\ req[c].via \in {"cache", "upstream"}

Types(s) == {s[i].type : i \in DOMAIN s}

NoneOfType(m, t) == t \notin Types(m.answers) \cup Types(m.authority) \cup Types(m.additional)

Renamed(s, n) == [i \in DOMAIN s |-> [s[i] EXCEPT !.name = n]]

Without(s, t) == SelectSeq(s, LAMBDA rr : rr.type # t)

Only(s, t) == SelectSeq(s, LAMBDA rr : rr.type = t)

\* an answer section made of a CNAME chain followed by A records
ChainThenA(ans) ==
    /\ dns_CNAME \in Types(ans)
    /\ Types(ans) \subseteq {dns_CNAME, dns_A}
    /\ \A i, j \in DOMAIN ans : (ans[i].type = dns_CNAME /\ ans[j].type = dns_A) => i < j

\* C1: for a query (qname, A, IN [or any class]) whose upstream answer is a CNAME
\* chain followed by A records, the answer returned is exactly those A records
\* under the name qname, in order, with their ttl and rdata, and authority and
\* additional are empty.
C1_FlatteningLaw ==
    \A c \in Clients :
        (Served(c) /\ req[c].query.type = dns_A /\ ChainThenA(req[c].reply.answers)) =>
            /\ req[c].response.answers = Renamed(Only(req[c].reply.answers, dns_A), req[c].query.name)
            /\ req[c].response.authority = << >>
            /\ req[c].response.additional = << >>

\* the chain CNAME, A, A with distinct ttls, asked under another name than the
\* records bear, answered with glue around it, and served from the cache
C1_Witness ==
    /\ req["c2"].via = "cache"
    /\ req["c2"].query.type = dns_A
    /\ req["c2"].query.name = "a:1"
    /\ req["c2"].reply.answers = <<CN, A1, A2>>
    /\ req["c2"].reply.additional # << >>

\* C2: no response made from an upstream reply, fresh or cached, for any query
\* type, carries a CNAME record in any section; nor does any cached response.
C2_NoCNAME ==
    /\ \A c \in Clients : Served(c) => NoneOfType(req[c].response, dns_CNAME)
    /\ \A i \in DOMAIN cache : NoneOfType(cache[i].data, dns_CNAME)

\* a non-address query whose reply had CNAMEs in answer and authority, served from the cache
C2_Witness ==
    /\ req["c2"].via = "cache"
    /\ req["c2"].query.type = dns_TXT
    /\ dns_CNAME \in Types(req["c2"].reply.answers)
    /\ dns_CNAME \in Types(req["c2"].reply.authority)

AnswersWithCNAME(m) == m.answers # << >> /\ ~NoneOfType(m, dns_CNAME)

RData(s) == [i \in DOMAIN s |-> <<s[i].ttl, s[i].payload>>]

\* C4: a type AAAA query that the upstream answers is answered without error;
\* with suppression the response holds no AAAA record (and, the upstream having
\* answered with CNAME and AAAA records only, its answer is empty); without
\* suppression the answer returns the addresses and ttls of the upstream's AAAA
\* records.
C4_AAAAQuery ==
    \A c \in Clients :
        (Served(c) /\ req[c].query.type = dns_AAAA) =>
            /\ req[c].response.rCode = dns_OK
            /\ IF remove_aaaa
               THEN /\ NoneOfType(req[c].response, dns_AAAA)
                    /\ Types(req[c].reply.answers) \subseteq {dns_AAAA, dns_CNAME}
                           => req[c].response.answers = << >>
               ELSE RData(Only(req[c].response.answers, dns_AAAA))
                        = RData(Only(req[c].reply.answers, dns_AAAA))

\* suppression on: a type AAAA query answered upstream by AAAA records alone
C4_Witness ==
    /\ remove_aaaa
    /\ req["c1"].via = "upstream"
    /\ req["c1"].query.type = dns_AAAA
    /\ req["c1"].reply.answers = <<V6, V6>>
    /\ req["c1"].response.answers = << >>

Stripped(m, t) == [m EXCEPT !.answers = Without(@, t), !.authority = Without(@, t),
                            !.additional = Without(@, t)]

\* C5 as stated: for an address query whose reply holds no CNAME, AAAA records are
\* dropped only when suppression is on and the type is A; a type AAAA query gets
\* the reply exactly as received, also under suppression.
C5_DropsOnlyForA ==
    \A c \in Clients :
        (Served(c) /\ req[c].query.type \in {dns_A, dns_AAAA}
                   /\ NoneOfType(req[c].reply, dns_CNAME)) =>
            req[c].response = IF remove_aaaa /\ req[c].query.type = dns_A
                              THEN Stripped(req[c].reply, dns_AAAA)
                              ELSE req[c].reply

\* C5 amended: for an address query whose reply holds no CNAME, AAAA records are
\* dropped from every section whenever suppression is on, for type A and type
\* AAAA alike; the reply is returned exactly as received when suppression is off.
C5_DropsUnderSuppression ==
    \A c \in Clients :
        (Served(c) /\ req[c].query.type \in {dns_A, dns_AAAA}
                   /\ NoneOfType(req[c].reply, dns_CNAME)) =>
            req[c].response = IF remove_aaaa
                              THEN Stripped(req[c].reply, dns_AAAA)
                              ELSE req[c].reply

\* suppression on: a type AAAA query whose CNAME-free reply mixes A and AAAA
\* records and carries AAAA glue
C5_Witness ==
    /\ remove_aaaa
    /\ req["c1"].via = "upstream"
    /\ req["c1"].query.type = dns_AAAA
    /\ req["c1"].reply.answers = <<A1, V6>>
    /\ req["c1"].reply.additional = <<V6>>

\* C6: when a query is resolved with an upstream reply and the same query is
\* resolved again after that, within the ttl it was cached with, the second call
\* is served from the cache with the same answer, the upstream was asked once,
\* and, these being the only two calls, the statistics read hits = 1, misses = 1.
C6_CacheHitPath ==
    \A c, d \in Clients :
        (/\ Finished(c) /\ req[c].via = "upstream"
         /\ req[d].pc # "idle" /\ c \in req[d].after
         /\ req[d].query = req[c].query
         /\ req[d].start < req[c].cachedUntil) =>
            /\ Finished(d) /\ req[d].via = "cache"
            /\ req[d].response.answers = req[c].response.answers
            /\ upstreamCalls[CacheKey(req[c].query)] = 1
            /\ stats.hits = 1 /\ stats.misses = 1

\* S1: the answer [A 2 ip1], asked again one second later
C6_Witness ==
    /\ req["c1"].via = "upstream" /\ req["c1"].reply.answers = <<A1>>
    /\ req["c1"].start = 0 /\ req["c1"].cachedUntil = 2
    /\ req["c2"].via = "cache" /\ req["c2"].start = 1
    /\ req["c2"].query = req["c1"].query

----------------------------------------------------------------------------
(* HealthMonitor: probes by the LoopingCall and results recorded for real    *)
(* queries                                                                   *)

\* the servers of the configuration, as add_server stores them
TwoServers == <<UpstreamServer("u1", "a1", 1, 1, TRUE), UpstreamServer("u2", "a2", 2, 1, TRUE)>>

ServerNames(ss) == {ss[i].name : i \in DOMAIN ss}
ServerNamed(ss, n) == ss[CHOOSE i \in DOMAIN ss : ss[i].name = n]

ResponseTimes == {0, 150}       \* milliseconds
HealthSteps == {HEALTH_CHECK_STARTUP_DELAY}

\* the cache and the resolver at rest, for the specifications that drive
\* something else
ResolverAtRest ==
    /\ InitDNSCache
    /\ max_size = MaxMaxSize
    /\ lastSet = [k \in QueryKeys |-> NoSet]
    /\ remove_aaaa = TRUE
    /\ req = [c \in Clients |-> Idle]
    /\ upstreamCalls = [k \in QueryKeys |-> 0]
    /\ origin = [k \in QueryKeys |-> NoOrigin]

\* HealthMonitor(config), add_server for every server, start(): the first
\* round of probes is scheduled HEALTH_CHECK_STARTUP_DELAY from now
InitHealthMonitor(ss, cfg, strategy) ==
    /\ config = cfg
    /\ servers = ss
    /\ metrics = [n \in ServerNames(ss) |-> ServerMetrics]
    /\ next_check = [n \in ServerNames(ss) |-> cfg.startup_time + HEALTH_CHECK_STARTUP_DELAY]
    /\ selector = ServerSelector(strategy)
    /\ attempt = [c \in Clients |-> NoServer]
    /\ hev = NoEvent
    /\ succ = [n \in ServerNames(ss) |-> 0]
    /\ rotation = NoRun

Recorded == Sum([i \in DOMAIN servers |-> metrics[servers[i].name].total_queries])

Event(kind, n, result, picked) ==
    [kind |-> kind, server |-> n, result |-> result, picked |-> picked,
     was_healthy |-> n \in DOMAIN metrics => metrics[n].is_healthy,
     failures |-> IF n \in DOMAIN metrics THEN metrics[n].consecutive_failures ELSE 0,
     tried |-> << >>]

\* what a recorded result leaves in the history
Noted(kind, n, result) ==
    /\ hev' = Event(kind, n, result, << >>)
    /\ succ' = [succ EXCEPT ![n] = IF result = SUCCESS THEN @ + 1 ELSE 0]

\* HealthMonitor.record_query_result(n, result, response_time)
DoRecord(n, result, response_time) ==
    /\ Recorded < MaxRecorded
    /\ metrics' = record_query_result(metrics, n, result,
                                      IF result = SUCCESS THEN response_time ELSE NoTime,
                                      now, config)
    /\ Noted("record", n, result)

\* record_query_result as _forward_to_upstream calls it at the end of a query
\* for which it contacted the addresses tried, in this order, having selected
\* fallback_servers (none when it selected no fallback)
DoRecordQuery(n, result, response_time, fallback_servers, tried) ==
    /\ Recorded < MaxRecorded
    /\ metrics' = record_query_result(metrics, n, result,
                                      IF result = SUCCESS THEN response_time ELSE NoTime,
                                      now, config)
    /\ hev' = [Event("record", n, result, fallback_servers) EXCEPT !.tried = tried]
    /\ succ' = [succ EXCEPT ![n] = IF result = SUCCESS THEN @ + 1 ELSE 0]

\* one _check_server_health of a round of _run_health_checks, at the reply
\* of the probe
DoHealthCheck(n, result, response_time) ==
    /\ Recorded < MaxRecorded
    /\ config.enabled
    /\ ServerNamed(servers, n).health_check
    /\ now >= next_check[n]
    /\ metrics' = [metrics EXCEPT ![n] =
                      _check_server_health(@, result, response_time, now, config)]
    /\ next_check' = [next_check EXCEPT ![n] =
                         @ + config.interval * ((now - @) \div config.interval + 1)]
    /\ Noted("probe", n, result)

RecordQueryResult(n, result, response_time) ==
    /\ DoRecord(n, result, response_time)
    /\ UNCHANGED <<now, cacheVars, resolverVars, limiterVars>>
    /\ UNCHANGED <<config, servers, next_check, selector, works, attempt, rotation>>

HealthCheck(n, result, response_time) ==
    /\ DoHealthCheck(n, result, response_time)
    /\ UNCHANGED <<now, cacheVars, resolverVars, limiterVars>>
    /\ UNCHANGED <<config, servers, selector, works, attempt, rotation>>

HealthTick(d) ==
    /\ now < MaxUptime
    /\ now' = now + d
    /\ hev' = NoEvent
    /\ UNCHANGED <<cacheVars, resolverVars, limiterVars>>
    /\ UNCHANGED <<config, servers, metrics, next_check, selector, works, attempt, succ, rotation>>

MonitorConfigs ==
    {[HealthCheckConfig(0) EXCEPT !.interval = i, !.recovery_threshold = r] :
        i \in {HEALTH_CHECK_STARTUP_DELAY, HEALTH_CHECK_INTERVAL}, r \in {1, HEALTH_CHECK_RECOVERY_THRESHOLD}}

InitMonitor ==
    /\ ResolverAtRest
    /\ NoRateLimiter
    /\ works = {}
    /\ \E cfg \in MonitorConfigs : InitHealthMonitor(TwoServers, cfg, WEIGHTED)

NextMonitor ==
    \/ \E n \in ServerNames(servers), result \in QueryResult, rt \in ResponseTimes :
          RecordQueryResult(n, result, rt)
    \/ \E n \in ServerNames(servers), result \in QueryResult, rt \in ResponseTimes :
          HealthCheck(n, result, rt)
    \/ \E d \in HealthSteps : HealthTick(d)

SpecMonitor == InitMonitor /\ [][NextMonitor]_vars

----------------------------------------------------------------------------
(* Properties of the health monitor *)

InGrace == now - config.startup_time < HEALTH_CHECK_STARTUP_DELAY
Recording == hev.kind \in {"record", "probe"}
Failure == Recording /\ hev.result # SUCCESS
WasHealthy == hev.was_healthy

\* C12: every upstream starts Healthy; a Healthy upstream goes Unhealthy at
\* the failure recorded outside the grace window that brings
\* consecutive_failures to failure_threshold, and at no failure that leaves
\* the count below it; a recorded success resets the count to 0.
C12_HealthyToUnhealthy ==
    /\ \A n \in DOMAIN metrics : metrics[n].total_queries = 0 => metrics[n].is_healthy
    /\ Failure /\ WasHealthy =>
          LET m == metrics[hev.server]
          IN  /\ m.consecutive_failures = hev.failures + 1
              /\ m.consecutive_failures < config.failure_threshold => m.is_healthy
              /\ m.consecutive_failures = config.failure_threshold /\ ~InGrace
                    => ~m.is_healthy
    /\ Recording /\ hev.result = SUCCESS => metrics[hev.server].consecutive_failures = 0

\* a Healthy upstream that had a success after failures is marked Unhealthy
\* by its third failure in a row, by a probe and by a real query
C12_Witness ==
    /\ Failure /\ WasHealthy /\ hev.kind = "probe"
    /\ ~metrics[hev.server].is_healthy
    /\ metrics[hev.server].consecutive_failures = HEALTH_CHECK_FAILURE_THRESHOLD
    /\ metrics[hev.server].successful_queries > 0

\* C13: an Unhealthy upstream becomes Healthy only at a recorded success that
\* is at least the recovery_threshold-th in a row.
C13_UnhealthyToHealthy ==
    Recording /\ ~WasHealthy /\ metrics[hev.server].is_healthy
        => hev.result = SUCCESS /\ succ[hev.server] >= config.recovery_threshold

\* C14: inside the startup grace window every upstream is in the state it
\* started in, however many failures were recorded, and no probe has run.
C14_StartupGrace ==
    InGrace => /\ \A n \in DOMAIN metrics : metrics[n].is_healthy
               /\ hev.kind # "probe"
               /\ \A n \in DOMAIN next_check : next_check[n] > now

\* failure_threshold failures in a row are recorded inside the window
C14_Witness ==
    /\ InGrace /\ Failure /\ hev.kind = "record"
    /\ metrics[hev.server].consecutive_failures >= config.failure_threshold

----------------------------------------------------------------------------
(* ServerSelector: selections over the servers of the monitor, whose health  *)
(* changes with the results recorded                                         *)

ThreeServers == <<UpstreamServer("u1", "a1", 2, 0, TRUE),
                  UpstreamServer("u2", "a2", 1, 1, TRUE),
                  UpstreamServer("u3", "a3", 1, 2, TRUE)>>

HealthyNames == {n \in DOMAIN metrics : metrics[n].is_healthy}

\* the selections made in a row by select_server over one set of healthy
\* servers, where the specification follows the rotation
Rotated(picked) ==
    IF ~rotation.followed THEN rotation
    ELSE IF rotation.healthy = HealthyNames /\ rotation.picks # << >>
         THEN [rotation EXCEPT !.picks = Append(@, picked)]
         ELSE [rotation EXCEPT !.healthy = HealthyNames, !.picks = <<picked>>,
                               !.start = selector.current_index]

\* ServerSelector.select_server(all_servers)
DoSelectServer(limit) ==
    /\ selector.current_index < limit
    /\ \E r \in select_server(servers, metrics, selector) :
          /\ selector' = [selector EXCEPT !.current_index = r.index]
          /\ hev' = Event("select", NoServer, "", <<r.picked>>)
          /\ rotation' = Rotated(r.picked)

\* ServerSelector.select_multiple_servers(all_servers, count)
DoSelectMultiple(count, limit) ==
    /\ selector.current_index < limit
    /\ \E r \in select_multiple_servers(servers, metrics, selector, count) :
          /\ selector' = [selector EXCEPT !.current_index = r.index]
          /\ hev' = Event("select_multiple", NoServer, "", r.picked)
    /\ rotation' = [rotation EXCEPT !.healthy = {}, !.picks = << >>]

SelectServer(limit) ==
    /\ DoSelectServer(limit)
    /\ UNCHANGED <<now, cacheVars, resolverVars, limiterVars>>
    /\ UNCHANGED <<config, servers, metrics, next_check, works, attempt, succ>>

SelectMultiple(count, limit) ==
    /\ DoSelectMultiple(count, limit)
    /\ UNCHANGED <<now, cacheVars, resolverVars, limiterVars>>
    /\ UNCHANGED <<config, servers, metrics, next_check, works, attempt, succ>>

\* failure_threshold = 1 in the [health-checks] section: one failure outside
\* the grace window marks a server Unhealthy
SelectorConfigs == {[HealthCheckConfig(0) EXCEPT !.failure_threshold = 1]}

SelectorResponseTimes == {150}

InitSelector ==
    /\ ResolverAtRest
    /\ NoRateLimiter
    /\ works = {}
    /\ \E cfg \in SelectorConfigs, strategy \in SelectionStrategy :
          InitHealthMonitor(ThreeServers, cfg, strategy)

NextSelector ==
    \/ SelectServer(MaxIndex)
    \/ \E count \in 1..FALLBACK_COUNT : SelectMultiple(count, MaxIndex)
    \/ \E n \in ServerNames(servers), result \in {SUCCESS, TIMEOUT},
          rt \in SelectorResponseTimes : RecordQueryResult(n, result, rt)
    \/ \E d \in HealthSteps : HealthTick(d)

SpecSelector == InitSelector /\ [][NextSelector]_vars

----------------------------------------------------------------------------
(* SpecRoundRobin: the round-robin selector followed over many selections,   *)
(* while the first upstream fails and recovers                               *)

InitRoundRobin ==
    /\ ResolverAtRest
    /\ NoRateLimiter
    /\ works = {}
    /\ config = HealthCheckConfig(0)
    /\ servers = ThreeServers
    /\ metrics = [n \in ServerNames(ThreeServers) |-> ServerMetrics]
    /\ next_check = [n \in ServerNames(ThreeServers) |-> HEALTH_CHECK_STARTUP_DELAY]
    /\ selector = ServerSelector(ROUND_ROBIN)
    /\ attempt = [c \in Clients |-> NoServer]
    /\ hev = NoEvent
    /\ succ = [n \in ServerNames(ThreeServers) |-> 0]
    /\ rotation = [NoRun EXCEPT !.followed = TRUE]

NextRoundRobin ==
    \/ SelectServer(MaxSelections)
    \/ \E count \in 1..FALLBACK_COUNT : SelectMultiple(count, MaxSelections)
    \/ \E result \in {SUCCESS, TIMEOUT}, rt \in SelectorResponseTimes :
          RecordQueryResult("u1", result, rt)
    \/ \E d \in HealthSteps : HealthTick(d)

SpecRoundRobin == InitRoundRobin /\ [][NextRoundRobin]_vars

----------------------------------------------------------------------------
(* Properties of the selector *)

AddressesOf(names) == {servers[i].address : i \in {j \in DOMAIN servers : servers[j].name \in names}}

\* C15: while some upstream is Healthy, select_server and
\* select_multiple_servers return Healthy upstreams only, under every strategy.
C15_SelectsHealthy ==
    hev.kind \in {"select", "select_multiple"} /\ HealthyNames # {}
        => Elems(hev.picked) \subseteq AddressesOf(HealthyNames)

\* with one upstream Unhealthy, two servers are asked for and both are Healthy
C15_Witness ==
    /\ hev.kind = "select_multiple" /\ Len(hev.picked) = 2
    /\ Cardinality(HealthyNames) = 2

\* C16: under the failover strategy select_server returns the Healthy
\* upstream with the smallest (priority, name).
C16_Failover ==
    selector.strategy = FAILOVER /\ hev.kind = "select" /\ HealthyNames # {}
        => \E i \in DOMAIN servers :
              /\ servers[i].address = hev.picked[1]
              /\ servers[i].name \in HealthyNames
              /\ \A j \in DOMAIN servers : servers[j].name \in HealthyNames =>
                    \/ servers[i].priority < servers[j].priority
                    \/ /\ servers[i].priority = servers[j].priority
                       /\ NameRank(servers[i].name) <= NameRank(servers[j].name)

\* the preferred upstream is returned again after it was Unhealthy
C16_Witness ==
    /\ selector.strategy = FAILOVER /\ hev.kind = "select"
    /\ hev.picked = <<"a2">>
    /\ succ["u2"] > 0
    /\ metrics["u2"].failed_queries >= config.failure_threshold

Count(s, x) == Cardinality({i \in DOMAIN s : s[i] = x})

----------------------------------------------------------------------------
(* HealthAwareDNSResolver: resolve_query with _forward_to_upstream           *)
(* overridden to select the upstream by health                               *)

\* the pass of the fallback loop over fallback_servers[1:] that returns a
\* result: none, since every pass stops at "resolver.timeout = (timeout,)"
\* with a NameError (no name timeout is bound in the function or the module)
\* that "except: continue" discards
fallback_result(fallback_servers) == NoServer

\* the servers the fallback loop sends the query to: none, no pass reaching
\* its "yield resolver._lookup(name, cls, type, timeout)"
fallback_tried(fallback_servers) == << >>

\* resolve_query up to the first yield of _forward_to_upstream: on a cache
\* miss a server is selected and the query sent to it
DoHealthQuery(c, q, udp) ==
    /\ DoQuery(c, q, udp)
    /\ IF req'[c].pc = "upstream"
       THEN \E r \in select_server(servers, metrics, selector) :
               /\ selector' = [selector EXCEPT !.current_index = r.index]
               /\ attempt' = [attempt EXCEPT ![c] = r.picked]
               /\ hev' = Event("select", NoServer, "", <<r.picked>>)
       ELSE UNCHANGED <<selector, attempt, hev>>
    /\ UNCHANGED <<config, servers, metrics, next_check, works, succ, rotation>>

HealthQuery(c, q) == DoHealthQuery(c, q, FALSE) /\ UNCHANGED limiterVars

\* the selected server answers: the success is recorded and resolve_query
\* goes on with the reply
DoForwardReply(c, m, response_time, udp) ==
    /\ req[c].pc = "upstream"
    /\ ServerAt(servers, attempt[c]).name \in works
    /\ DoRecordQuery(ServerAt(servers, attempt[c]).name, SUCCESS, response_time,
                     << >>, <<attempt[c]>>)
    /\ DoUpstreamReply(c, m, udp)
    /\ attempt' = [attempt EXCEPT ![c] = NoServer]
    /\ UNCHANGED <<config, servers, next_check, selector, works, rotation>>

ForwardReply(c, m, response_time) ==
    DoForwardReply(c, m, response_time, FALSE) /\ UNCHANGED limiterVars

\* the selected server fails: the failure is recorded, after a DNSServerError
\* the fallback servers are selected and looped over, and the exception
\* reaches resolve_query, which answers SERVFAIL
DoForwardFailure(c, result) ==
    /\ req[c].pc = "upstream"
    /\ ServerAt(servers, attempt[c]).name \notin works
    /\ IF result = REFUSED
       THEN \E r \in select_multiple_servers(
                         servers,
                         record_query_result(metrics, ServerAt(servers, attempt[c]).name,
                                             result, NoTime, now, config),
                         selector, FALLBACK_COUNT) :
               /\ fallback_result(r.picked) = NoServer
               /\ selector' = [selector EXCEPT !.current_index = r.index]
               /\ DoRecordQuery(ServerAt(servers, attempt[c]).name, result, NoTime, r.picked,
                                <<attempt[c]>> \o fallback_tried(r.picked))
       ELSE /\ DoRecordQuery(ServerAt(servers, attempt[c]).name, result, NoTime, << >>,
                             <<attempt[c]>>)
            /\ UNCHANGED selector
    /\ DoUpstreamError(c)
    /\ attempt' = [attempt EXCEPT ![c] = NoServer]
    /\ UNCHANGED <<config, servers, next_check, works, rotation>>

ForwardFailure(c, result) == DoForwardFailure(c, result) /\ UNCHANGED limiterVars

FailoverQuery == [name |-> "a", type |-> dns_A, cls |-> dns_IN]
FailoverReply == Message(<<A1>>, << >>, << >>)

InitFailover ==
    /\ ResolverAtRest
    /\ NoRateLimiter
    /\ \E ss \in {TwoServers, ThreeServers}, strategy \in {FAILOVER, ROUND_ROBIN} :
          /\ works \in SUBSET ServerNames(ss)
          /\ InitHealthMonitor(ss, HealthCheckConfig(0), strategy)

NextFailover ==
    \/ \E c \in Clients : HealthQuery(c, FailoverQuery)
    \/ \E c \in Clients, rt \in SelectorResponseTimes : ForwardReply(c, FailoverReply, rt)
    \/ \E c \in Clients, result \in {TIMEOUT, REFUSED, ERROR} : ForwardFailure(c, result)
    \/ \E d \in HealthSteps : HealthTick(d)

SpecFailover == InitFailover /\ [][NextFailover]_vars

\* C11: a query is answered SERVFAIL only when every upstream that can be
\* tried has failed: with an upstream that answers among the (at most three)
\* configured, the client gets an answer, not SERVFAIL.
C11_FailoverEndToEnd ==
    \A c \in Clients :
        Finished(c) /\ req[c].response.rCode = dns_ESERVER => works = {}

----------------------------------------------------------------------------
(* The rate limiter driven by is_allowed calls, the clock in ticks *)

\* what a client that has not called yet has seen
Unseen(t) ==
    [bucket |-> TokenBucket(limiter.rate_per_ip, limiter.burst_per_ip, t),
     first |-> t, last |-> t, prev |-> t, calls |-> 0, allowed |-> 0,
     idle |-> NoTime, got |-> 0, denied |-> FALSE]

Seen(ip, t) == IF ip \in DOMAIN solo THEN solo[ip] ELSE Unseen(t)

\* RateLimiter.is_allowed(ip_address) at the present time
DoIsAllowed(ip_address) ==
    LET r == is_allowed(limiter, buckets, ip_address, now)
        was == Seen(ip_address, now)
        alone == consume(was.bucket, now)
        \* the calls made at one instant: how long the client had been silent
        \* if they found its bucket exhausted, and how many were allowed
        again == was.calls > 0 /\ was.last = now
        exhausted == ip_address \in DOMAIN buckets /\ buckets[ip_address].tokens < OneToken
    IN  /\ limiter' = r.limiter
        /\ buckets' = r.buckets
        /\ solo' = [ip \in DOMAIN solo \cup {ip_address} |->
                       IF ip = ip_address
                       THEN [was EXCEPT !.bucket = alone.bucket, !.last = now, !.prev = was.last,
                                        !.calls = @ + 1,
                                        !.allowed = IF r.allowed THEN @ + 1 ELSE @,
                                        !.idle = IF again THEN @
                                                 ELSE IF exhausted THEN now - was.last
                                                 ELSE NoTime,
                                        !.got = (IF again THEN @ ELSE 0)
                                                + (IF r.allowed THEN 1 ELSE 0),
                                        !.denied = (again /\ @) \/ ~r.allowed]
                       ELSE solo[ip]]
        /\ lastCall' = [kind |-> "is_allowed", ip |-> ip_address, allowed |-> r.allowed,
                        alone |-> alone.allowed, at |-> now,
                        since |-> lastCall.since + 1]

Calls == limiter.stats.allowed + limiter.stats.blocked

IsAllowed(ip_address, limit) ==
    /\ Calls < limit
    /\ DoIsAllowed(ip_address)
    /\ UNCHANGED <<now, cacheVars, resolverVars, healthVars, pending_queries, written, datagram,
                 checked, arrived, conn, lifecycle>>

\* time.time() moves on by d ticks
LimiterTick(d, limit) ==
    /\ now + d <= limit
    /\ now' = now + d
    /\ UNCHANGED <<cacheVars, resolverVars, healthVars, limiterVars>>

BurstLimits == {3, 10}
BurstSteps == {33, 50}

\* RateLimiter(rate_per_ip=10, burst_per_ip=burst)
InitBurst ==
    /\ ResolverAtRest
    /\ NoHealthMonitor
    /\ \E burst \in BurstLimits :
          limiter = RateLimiter(10, burst, CACHE_CLEANUP_INTERVAL, 0)
    /\ buckets = << >>
    /\ pending_queries = << >>
    /\ written = << >>
    /\ datagram = [c \in Clients |-> NoDatagram]
    /\ solo = << >>
    /\ lastCall = NoCall
    /\ WireAtRest

NextBurst ==
    \/ IsAllowed("ipA", MaxCalls)
    \/ \E d \in BurstSteps : LimiterTick(d, MaxBurstClock)

SpecBurst == InitBurst /\ [][NextBurst]_vars

\* C18: the first burst calls of a client are allowed; while less than one
\* token has been refilled since its first call (with rate 10/s: within
\* 100 ms) exactly the first burst calls are allowed and all further ones
\* are denied and counted as blocked, so 25 calls with burst 10 give 10
\* allowed and blocked = 15; a call is denied only with less than one token,
\* and allowed once a token has been refilled since the call before.
C18_BurstLimit ==
    \A ip \in DOMAIN solo :
        LET s == solo[ip]
            burst == limiter.burst_per_ip
        IN  /\ s.calls <= burst => s.allowed = s.calls
            /\ (s.last - s.first) * limiter.rate_per_ip < OneToken =>
                  /\ s.allowed = Min(s.calls, burst)
                  /\ limiter.stats.blocked_ip[ip] = s.calls - Min(s.calls, burst)
                  /\ DOMAIN solo = {ip} => limiter.stats.blocked = s.calls - Min(s.calls, burst)
            /\ lastCall.ip = ip /\ ~lastCall.allowed => buckets[ip].tokens < OneToken
            /\ lastCall.ip = ip /\ (s.last - s.prev) * limiter.rate_per_ip >= OneToken
                  => lastCall.allowed

\* 25 calls spread over 99 ms with rate 10/s and burst 10: 15 are blocked
C18_Witness ==
    /\ limiter.rate_per_ip = 10 /\ limiter.burst_per_ip = 10
    /\ "ipA" \in DOMAIN solo
    /\ solo["ipA"].calls = 25
    /\ solo["ipA"].last - solo["ipA"].first = 99
    /\ solo["ipA"].allowed = 10
    /\ limiter.stats.blocked = 15
    /\ ~lastCall.allowed

----------------------------------------------------------------------------
(* Two clients of one rate limiter whose sweep runs every second *)

LimiterSteps == {500, 1000}

\* RateLimiter(rate_per_ip=1, burst_per_ip=2, cleanup_interval=1)
InitLimiter ==
    /\ ResolverAtRest
    /\ NoHealthMonitor
    /\ limiter = RateLimiter(1, 2, 1, 0)
    /\ buckets = << >>
    /\ pending_queries = << >>
    /\ written = << >>
    /\ datagram = [c \in Clients |-> NoDatagram]
    /\ solo = << >>
    /\ lastCall = NoCall
    /\ WireAtRest

NextLimiter ==
    \/ \E ip \in Addresses : IsAllowed(ip, MaxShared)
    \/ \E d \in LimiterSteps : LimiterTick(d, MaxClock)

SpecLimiter == InitLimiter /\ [][NextLimiter]_vars

\* C20: whatever the calls of the other clients, each is_allowed call of a
\* client returns what it would return were the client alone, the client's
\* bucket is the one its own calls alone would have left, and its first
\* burst calls are allowed.
C20_Independence ==
    /\ lastCall.kind = "is_allowed" => lastCall.allowed = lastCall.alone
    /\ \A ip \in DOMAIN solo :
          /\ ip \in DOMAIN buckets => buckets[ip] = solo[ip].bucket
          /\ ip \notin DOMAIN buckets =>
                solo[ip].bucket.tokens = limiter.burst_per_ip * OneToken
          /\ solo[ip].calls <= limiter.burst_per_ip => solo[ip].allowed = solo[ip].calls

\* B has exhausted its burst and was denied, the sweep has run, and A, which
\* began afterwards, has had burst calls allowed
C20_Witness ==
    /\ DOMAIN solo = Addresses
    /\ limiter.stats.blocked_ip["ipB"] > 0
    /\ limiter.last_cleanup > 0
    /\ solo["ipA"].first >= solo["ipB"].last
    /\ lastCall.ip = "ipA" /\ lastCall.allowed
    /\ solo["ipA"].allowed = limiter.burst_per_ip

----------------------------------------------------------------------------
(* DNSProxyProtocol: the UDP listener in front of resolve_query.  A rate     *)
(* limiter exists beside it; the protocol takes the resolver only.           *)

QueryIds == {1, 2}

\* _send_response(response, query_id, original_message) on the pending
\* queries p, as the callback of request c: nothing is written for an id
\* that is no longer pending; the datagram carries the id and the question
\* of the request and goes to the address the id is pending for.  The
\* truncated flag is set after the first serialization, so that it is in the
\* datagram when the response was serialized again, after a pop, or when
\* the object had it set already
_send_response(p, c, response, query_id, original_queries) ==
    LET sent == sent_over_udp(response, original_queries)
    IN  IF query_id \in DOMAIN p
        THEN [pending |-> Restrict(p, DOMAIN p \ {query_id}),
              written |-> Append(written,
                             [for |-> c, id |-> query_id, queries |-> original_queries,
                              rCode |-> response.rCode, to |-> p[query_id],
                              full |-> toStr_len(response, original_queries),
                              size |-> toStr_len(sent, original_queries),
                              answers |-> sent.answers, additional |-> sent.additional,
                              trunc |-> response.trunc
                                           \/ sent.additional # response.additional])]
        ELSE [pending |-> p, written |-> written]

\* datagramReceived(data, addr) with a message of the given id and query: the
\* sender is stored as pending and the query resolved; on a cache hit the
\* response is sent before datagramReceived returns
StorePending(c, query_id, addr, q) ==
    /\ datagram' = [datagram EXCEPT ![c] = [id |-> query_id, addr |-> addr]]
    /\ LET stored == [i \in DOMAIN pending_queries \cup {query_id} |->
                         IF i = query_id THEN addr ELSE pending_queries[i]]
           sent == _send_response(stored, c, req'[c].response, query_id, q)
       IN  IF req'[c].pc = "done"
           THEN pending_queries' = sent.pending /\ written' = sent.written
           ELSE pending_queries' = stored /\ UNCHANGED written

DatagramReceived(c, query_id, addr, q) ==
    /\ DoQuery(c, q, TRUE)
    /\ StorePending(c, query_id, addr, q)
    /\ UNCHANGED <<healthVars, limiter, buckets, solo, lastCall,
                 checked, arrived, conn, lifecycle>>

\* the upstream's reply arrives and the callback _send_response runs
SendPending(c) ==
    LET sent == _send_response(pending_queries, c, req'[c].response,
                               datagram[c].id, req[c].query)
    IN  pending_queries' = sent.pending /\ written' = sent.written

DatagramReply(c, m) ==
    /\ DoUpstreamReply(c, m, datagram[c].id \in DOMAIN pending_queries)
    /\ SendPending(c)
    /\ UNCHANGED <<healthVars, limiter, buckets, datagram, solo, lastCall,
                 checked, arrived, conn, lifecycle>>

\* the upstream fails: resolve_query returns SERVFAIL to the same callback
DatagramError(c) ==
    /\ DoUpstreamError(c)
    /\ SendPending(c)
    /\ UNCHANGED <<healthVars, limiter, buckets, datagram, solo, lastCall,
                 checked, arrived, conn, lifecycle>>

ListenerQueries == ClientQueries \cup {[name |-> "a", type |-> dns_TXT, cls |-> dns_IN]}

\* what the upstream answers the listener's queries: small answers, an answer
\* that fits without its additional section, and one that does not fit
ListenerReplies == {Message(<<A1>>, << >>, << >>),
                    Message(<<CN, A1, A2>>, << >>, << >>),
                    Message(<<TX>>, << >>, <<A1, TX>>),
                    Message(<<TX, TX>>, << >>, <<A1>>)}

\* RateLimiter(rate_per_ip=10, burst_per_ip=1) and DNSProxyProtocol(resolver)
InitListener ==
    /\ ResolverAtRest
    /\ NoHealthMonitor
    /\ limiter = RateLimiter(10, 1, CACHE_CLEANUP_INTERVAL, 0)
    /\ buckets = << >>
    /\ pending_queries = << >>
    /\ written = << >>
    /\ datagram = [c \in Clients |-> NoDatagram]
    /\ solo = << >>
    /\ lastCall = NoCall
    /\ WireAtRest

NextListener ==
    \/ \E c \in Clients, i \in QueryIds, a \in Addresses, q \in ListenerQueries :
          DatagramReceived(c, i, a, q)
    \/ \E c \in Clients, m \in ListenerReplies : DatagramReply(c, m)
    \/ \E c \in Clients : DatagramError(c)

SpecListener == InitListener /\ [][NextListener]_vars

\* C19: datagrams the rate limiter denies are dropped: of the datagrams one
\* client sends at once, no more than burst are pending, are sent upstream
\* or are answered.
C19_RateLimitedDropped ==
    LET burst == limiter.burst_per_ip
    IN  \A a \in Addresses :
          /\ Cardinality({i \in DOMAIN pending_queries : pending_queries[i] = a}) <= burst
          /\ Cardinality({c \in Clients : req[c].pc = "upstream" /\ datagram[c].addr = a})
                <= burst
          /\ Cardinality({i \in DOMAIN written : written[i].to = a}) <= burst

\* the queries the listener has handed to resolve_query
Accepted == {c \in Clients : req[c].pc # "idle"}

\* the datagrams written as the response to request c
ResponsesTo(c) == {i \in DOMAIN written : written[i].for = c}

\* C23: every response datagram goes to the address that sent the query it
\* answers and carries that query's id and question, whatever the ids of the
\* queries in flight.
C23_ResponseRouting ==
    \A i \in DOMAIN written :
        LET c == written[i].for
        IN  /\ written[i].to = datagram[c].addr
            /\ written[i].id = datagram[c].id
            /\ written[i].queries = req[c].query

\* C25: no UDP response datagram is longer than 512 octets; a response that
\* is longer loses additional records until it fits and carries the TC flag,
\* and one that is not longer is sent as it is, without the flag.
C25_Truncation ==
    \A i \in DOMAIN written :
        LET w == written[i]
        IN  /\ w.size <= DNS_UDP_MAX_SIZE
            /\ w.trunc <=> w.full > DNS_UDP_MAX_SIZE
            /\ w.full <= DNS_UDP_MAX_SIZE => w.size = w.full

\* what the scheduling gives: an upstream query is answered or fails
ListenerFairness ==
    \A c \in Clients :
        WF_vars(DatagramReply(c, FailoverReply) \/ DatagramError(c))

\* the listener with one question asked and one reply given
NextListenerLive ==
    \/ \E c \in Clients, i \in QueryIds, a \in Addresses : DatagramReceived(c, i, a, FailoverQuery)
    \/ \E c \in Clients : DatagramReply(c, FailoverReply)
    \/ \E c \in Clients : DatagramError(c)

SpecListenerLive == InitListener /\ [][NextListenerLive]_vars /\ ListenerFairness

\* C24: every query handed to resolve_query is answered with exactly one
\* datagram to its sender: never more than one, and in the end one.
C24_EveryQueryAnswered ==
    /\ [](\A c \in Clients : Cardinality(ResponsesTo(c)) <= 1)
    /\ \A c \in Clients :
          (c \in Accepted) ~>
              (\E i \in ResponsesTo(c) : written[i].to = datagram[c].addr)

\* C21: a sweep removes every bucket whose client has made no call for at
\* least burst / rate seconds: after an is_allowed call that swept, no other
\* client's bucket that has had time to refill completely is left.
C21_IdleReclaimed ==
    lastCall.kind = "is_allowed" /\ limiter.last_cleanup = lastCall.at =>
        \A ip \in DOMAIN buckets \ {lastCall.ip} :
            (lastCall.at - solo[ip].last) * limiter.rate_per_ip
                < limiter.burst_per_ip * OneToken

----------------------------------------------------------------------------
(* One client that exhausts its bucket, waits and calls again *)

RefillSteps == {250, 1000}

\* RateLimiter(rate_per_ip=2, burst_per_ip=2)
InitRefill ==
    /\ ResolverAtRest
    /\ NoHealthMonitor
    /\ limiter = RateLimiter(2, 2, CACHE_CLEANUP_INTERVAL, 0)
    /\ buckets = << >>
    /\ pending_queries = << >>
    /\ written = << >>
    /\ datagram = [c \in Clients |-> NoDatagram]
    /\ solo = << >>
    /\ lastCall = NoCall
    /\ WireAtRest

NextRefill ==
    \/ IsAllowed("ipA", MaxShared)
    \/ \E d \in RefillSteps : LimiterTick(d, MaxClock)

SpecRefill == InitRefill /\ [][NextRefill]_vars

\* C22: a client whose bucket was exhausted and that made no call for time t
\* has min(burst, t * rate) tokens again, rounded down, or one more: that
\* many calls made at once are allowed and no more than that, the next one
\* being denied; a bucket never holds more than burst tokens.
C22_TokenRefill ==
    /\ \A ip \in DOMAIN buckets : buckets[ip].tokens <= limiter.burst_per_ip * OneToken
    /\ \A ip \in DOMAIN solo :
          LET s == solo[ip]
              burst == limiter.burst_per_ip
              refilled == Min(burst, (s.idle * limiter.rate_per_ip) \div OneToken)
          IN  s.idle # NoTime =>
                /\ s.got <= Min(burst, refilled + 1)
                /\ s.denied => s.got >= refilled

\* after a wait long enough to refill more than burst tokens, burst calls are
\* allowed and the next is denied
C22_Witness ==
    /\ "ipA" \in DOMAIN solo
    /\ solo["ipA"].idle # NoTime
    /\ solo["ipA"].idle * limiter.rate_per_ip > limiter.burst_per_ip * OneToken
    /\ solo["ipA"].got = limiter.burst_per_ip
    /\ solo["ipA"].denied

----------------------------------------------------------------------------
(* Properties of the failure path of resolve_query *)

\* the step in which the call of c ends in the except clause
Fails(c) == req[c].pc = "upstream" /\ req'[c].pc = "done" /\ req'[c].via = "error"

\* C29: a resolution that fails is answered SERVFAIL and leaves the cache as
\* it was; the cache never holds a SERVFAIL response, and an identical query
\* made after the failure is not served from the cache unless some other
\* call has stored an answer.
C29_ErrorsNotCached ==
    /\ [][\A c \in Clients : Fails(c) =>
            /\ req'[c].response.rCode = dns_ESERVER
            /\ cache' = cache /\ stats' = stats]_vars
    /\ [](\A i \in DOMAIN cache : cache[i].data.rCode # dns_ESERVER)
    /\ [](\A c, d \in Clients :
            (/\ Finished(c) /\ req[c].via = "error"
             /\ Finished(d) /\ c \in req[d].after
             /\ req[d].query = req[c].query
             /\ req[d].via = "cache") =>
                \E e \in Clients \ {c, d} :
                    req[e].via = "upstream" /\ req[e].query = req[c].query)

\* after a failed resolution the same query is made again and goes upstream
C29_Witness ==
    /\ req["c1"].via = "error" /\ req["c1"].response.rCode = dns_ESERVER
    /\ req["c2"].query = req["c1"].query /\ "c1" \in req["c2"].after
    /\ req["c2"].via = "upstream"
    /\ upstreamCalls[CacheKey(req["c1"].query)] = 2

----------------------------------------------------------------------------
(* DNSValidator.validate_dns_name on names spelled out character by character *)

MAX_DNS_NAME_LENGTH == 255
MAX_DNS_LABEL_LENGTH == 63

\* the most labels a name under validation has
MaxLabels == 5

\* the characters of the names: letters and a digit, the hyphen, the dot, a
\* space, other ASCII punctuation, and a letter outside ASCII
Letters == {"a", "b", "c", "d", "l", "n", "o", "p", "r", "s", "t", "x", "y", "1", "7"}
Accented == {"e'"}
Characters == Letters \cup Accented \cup {"-", ".", " ", "!", "_", ":"}

\* str.isalnum() holds for every alphanumeric character of Unicode
isalnum(ch) == ch \in Letters \cup Accented

\* n times the character ch
Run(ch, n) == [i \in 1..n |-> ch]

\* name.split("."): the pieces between the dots, empty pieces included
RECURSIVE split(_)
split(name) ==
    IF \A i \in DOMAIN name : name[i] # "."
    THEN <<name>>
    ELSE LET dot == CHOOSE i \in DOMAIN name :
                       name[i] = "." /\ \A j \in 1..(i - 1) : name[j] # "."
         IN  <<SubSeq(name, 1, dot - 1)>> \o split(SubSeq(name, dot + 1, Len(name)))

\* the checks validate_dns_name makes on one label, in their order; every
\* one of them is skipped for an empty label ("if label and ...")
label_error(label) ==
    IF label # << >> /\ Len(label) > MAX_DNS_LABEL_LENGTH THEN "label too long"
    ELSE IF label # << >> /\ ~(\A i \in DOMAIN label : isalnum(label[i]) \/ label[i] = "-")
         THEN "invalid characters"
    ELSE IF label # << >> /\ (label[1] = "-" \/ label[Len(label)] = "-")
         THEN "hyphen"
    ELSE "ok"

\* validate_dns_name(name): "ok" when no DNSValidationError is raised,
\* otherwise what the first error raised is about
validate_dns_name(name) ==
    IF Len(name) > MAX_DNS_NAME_LENGTH THEN "name too long"
    ELSE LET labels == split(name)
             bad == {i \in DOMAIN labels : label_error(labels[i]) # "ok"}
         IN  IF bad = {} THEN "ok"
             ELSE label_error(labels[CHOOSE i \in bad : \A j \in bad : i <= j])

\* labels joined by dots
RECURSIVE join(_)
join(labels) ==
    IF Len(labels) = 1 THEN labels[1]
    ELSE labels[1] \o <<".">> \o join(Tail(labels))

\* the labels the names under validation are made of: plain labels of 1 and
\* of 63 characters, and labels that are empty, too long, or hold a hyphen at
\* either end or within, a space, punctuation or a letter outside ASCII
PlainLabels == {<<"a">>, Run("a", MAX_DNS_LABEL_LENGTH)}
OddLabels == {<< >>, Run("a", MAX_DNS_LABEL_LENGTH + 1), <<"-", "a">>, <<"a", "-">>,
              <<"a", "-", "b">>, <<"a", " ", "b">>, <<"a", "!">>, <<"_", "a">>,
              <<"e'">>, <<"7">>}

\* names of up to MaxLabels labels, at most one of them not a plain one
NameInputs ==
    {join(ls) : ls \in UNION {{l \in [1..n -> PlainLabels \cup OddLabels] :
                                  Cardinality({i \in 1..n : l[i] \in OddLabels}) <= 1} :
                              n \in 1..MaxLabels}}

InitNames ==
    /\ ResolverAtRest
    /\ NoHealthMonitor
    /\ limiter = RateLimiter(RATE_LIMIT_PER_IP, RATE_LIMIT_BURST, CACHE_CLEANUP_INTERVAL, 0)
    /\ buckets = << >>
    /\ pending_queries = << >>
    /\ written = << >>
    /\ datagram = [c \in Clients |-> NoDatagram]
    /\ solo = << >>
    /\ lastCall = NoCall
    /\ arrived = [c \in Clients |-> NoPacket]
    /\ conn = NoConnection
    /\ lifecycle = NoLifecycle
    /\ \E name \in NameInputs : checked = [name |-> name, verdict |-> "none"]

\* DNSValidator.validate_dns_name(name) is called on the name
ValidateName ==
    /\ checked.verdict = "none"
    /\ checked' = [checked EXCEPT !.verdict = validate_dns_name(checked.name)]
    /\ UNCHANGED <<now, cacheVars, resolverVars, healthVars, limiter, buckets,
                   pending_queries, written, datagram, solo, lastCall, arrived, conn, lifecycle>>

NextNames == ValidateName

SpecNames == InitNames /\ [][NextNames]_vars

\* a label of 1 to 63 characters drawn from [A-Za-z0-9-] with no hyphen at
\* either end
WellFormedLabel(label) ==
    /\ Len(label) >= 1 /\ Len(label) <= 63
    /\ \A i \in DOMAIN label : label[i] \in Letters \cup {"-"}
    /\ label[1] # "-" /\ label[Len(label)] # "-"

\* C28: validate_dns_name accepts a name if and only if its length is at most
\* 255 and every label has 1 to 63 characters drawn from [A-Za-z0-9-] with no
\* leading or trailing hyphen.
C28_NameValidation ==
    checked.verdict # "none" =>
        (checked.verdict = "ok" <=>
            /\ Len(checked.name) <= 255
            /\ \A i \in DOMAIN split(checked.name) : WellFormedLabel(split(checked.name)[i]))

----------------------------------------------------------------------------
(* DNSValidator.validate_request, and the UDP listener on packets of any kind *)

MIN_DNS_PACKET_SIZE == 12
MAX_DNS_PACKET_SIZE == 65535
MAX_DNS_QUESTIONS == 10
dns_EFORMAT == 1

ALLOWED_QUERY_TYPES == {1, 2, 5, 6, 12, 15, 16, 28, 33, 255}

\* a packet as the listener receives it: its length in octets, whether
\* dns.Message.fromStr decodes it, and for one that decodes the id, the
\* number of questions and the question (all its questions are the same)
Packet(size, parses, id, count, query) ==
    [size |-> size, parses |-> parses, id |-> id, count |-> count, query |-> query]

\* str(query.name) character by character
Spelling(n) ==
    IF n = "a" THEN <<"a">>
    ELSE IF n = "a:1" THEN <<"a", ":", "1">>
    ELSE IF n = StatsName
         THEN <<"_", "d", "n", "s", "-", "p", "r", "o", "x", "y", "-",
                "s", "t", "a", "t", "s", ".", "l", "o", "c", "a", "l">>
    ELSE << >>

validate_packet_size(size, is_tcp) ==
    LET largest == IF is_tcp THEN MAX_DNS_PACKET_SIZE ELSE DNS_UDP_MAX_SIZE
    IN  IF size < MIN_DNS_PACKET_SIZE THEN "packet too small"
        ELSE IF size > largest THEN "packet too large"
        ELSE "ok"

validate_message(p) ==
    IF p.count > MAX_DNS_QUESTIONS THEN "too many questions"
    ELSE IF p.count > 0 /\ validate_dns_name(Spelling(p.query.name)) # "ok"
         THEN "invalid query name"
    ELSE IF p.count > 0 /\ p.query.type \notin ALLOWED_QUERY_TYPES
         THEN "unsupported query type"
    ELSE "ok"

\* validate_request(data, is_tcp): "ok" when the parsed message is returned,
\* otherwise what the DNSValidationError raised is about
validate_request(p, is_tcp) ==
    IF validate_packet_size(p.size, is_tcp) # "ok" THEN validate_packet_size(p.size, is_tcp)
    ELSE IF ~p.parses THEN "failed to parse"
    ELSE IF validate_message(p) # "ok" THEN validate_message(p)
    ELSE IF p.count = 0 THEN "no queries"
    ELSE "ok"

\* the packets sent to the listener: one of 8 octets, one of 12 octets that is
\* a header without a question, one that does not decode, queries for a valid
\* name in a packet of ordinary size and in one longer than 512 octets, a
\* query for a name with a colon, one of a type that is not allowed, and a
\* packet of 11 questions
PacketsOf(i) ==
    {Packet(8, FALSE, 0, 0, NoQuery),
     Packet(12, TRUE, i, 0, NoQuery),
     Packet(20, FALSE, 0, 0, NoQuery),
     Packet(19, TRUE, i, 1, FailoverQuery),
     Packet(513, TRUE, i, 1, FailoverQuery),
     Packet(21, TRUE, i, 1, [name |-> "a:1", type |-> dns_A, cls |-> dns_IN]),
     Packet(19, TRUE, i, 1, HTTPSQuery),
     Packet(89, TRUE, i, 11, FailoverQuery)}

\* DNSProxyProtocol.datagramReceived(data, addr): a packet that fromStr does
\* not decode is logged and dropped, one without a question is dropped, and
\* for every other the sender is stored as pending and the first question
\* handed to resolve_query
PacketReceived(c, p, addr) ==
    /\ arrived[c] = NoPacket
    /\ req[c].pc = "idle"
    /\ arrived' = [arrived EXCEPT ![c] = p]
    /\ IF p.parses /\ p.count > 0
       THEN /\ DoQuery(c, p.query, TRUE)
            /\ StorePending(c, p.id, addr, p.query)
       ELSE UNCHANGED <<now, cacheVars, resolverVars, pending_queries, written, datagram>>
    /\ UNCHANGED <<healthVars, limiter, buckets, solo, lastCall, checked, conn, lifecycle>>

NextPackets ==
    \/ \E c \in Clients, i \in QueryIds, a \in Addresses :
          \E p \in PacketsOf(i) : PacketReceived(c, p, a)
    \/ \E c \in Clients : DatagramReply(c, FailoverReply)
    \/ \E c \in Clients : DatagramError(c)

SpecPackets == InitListener /\ [][NextPackets]_vars

\* C27: a datagram that fails validation but whose header decodes is
\* answered with rcode FORMERR and its own id, and is not handed on to be
\* resolved and forwarded; a packet shorter than 12 octets or one that does
\* not decode is dropped without a response.
C27_FormErrOnInvalid ==
    \A c \in Clients :
        arrived[c] # NoPacket =>
            LET p == arrived[c]
                responses == {i \in DOMAIN written : written[i].for = c}
            IN  /\ (p.size >= MIN_DNS_PACKET_SIZE /\ p.parses
                       /\ validate_request(p, FALSE) # "ok")
                     => /\ req[c].pc = "idle"
                        /\ \E i \in responses :
                              written[i].rCode = dns_EFORMAT /\ written[i].id = p.id
                /\ (p.size < MIN_DNS_PACKET_SIZE \/ ~p.parses) => responses = {}

----------------------------------------------------------------------------
(* The health-aware UDP listener and the statistics query *)

\* the attributes an instance of HealthAwareDNSProxyProtocol has: those that
\* DNSProxyProtocol.__init__ sets (the mixin HealthAwareDNSProtocol has no
\* __init__ and no class attributes)
ProtocolAttributes == {"resolver", "pending_queries"}

\* get_health_stats_response(message, address): for a message with one
\* question whose name is that of the statistics query, a response with one
\* TXT record of ttl 0 per server of the monitor's statistics; None otherwise
get_health_stats_response(p) ==
    IF p.count = 1 /\ p.query.name = StatsName
    THEN [found |-> TRUE,
          response |-> Message([i \in DOMAIN servers |->
                                   RR(StatsName, dns_TXT, 0, servers[i].name)], << >>, << >>)]
    ELSE [found |-> FALSE, response |-> NoReply]

\* the try block of HealthAwareDNSProxyProtocol.datagramReceived: the
\* statistics response, or none when an exception is raised (by the lookup of
\* self.validator or by validate_request) and passed over
stats_response(p) ==
    IF "validator" \notin ProtocolAttributes THEN [found |-> FALSE, response |-> NoReply]
    ELSE IF validate_request(p, FALSE) # "ok" THEN [found |-> FALSE, response |-> NoReply]
    ELSE get_health_stats_response(p)

\* HealthAwareDNSProxyProtocol.datagramReceived(datagram, addr): a statistics
\* response is written to the sender at once; without one the datagram goes
\* to DNSProxyProtocol.datagramReceived, whose resolver selects the upstream
HealthPacketReceived(c, p, addr) ==
    /\ arrived[c] = NoPacket
    /\ req[c].pc = "idle"
    /\ arrived' = [arrived EXCEPT ![c] = p]
    /\ IF stats_response(p).found
       THEN /\ LET response == stats_response(p).response
               IN  written' = Append(written,
                        [for |-> c, id |-> p.id, queries |-> NoQuery,
                         rCode |-> response.rCode, to |-> addr,
                         full |-> toStr_len(response, NoQuery) - (NameLength("") + 4),
                         size |-> toStr_len(response, NoQuery) - (NameLength("") + 4),
                         answers |-> response.answers, additional |-> << >>,
                         trunc |-> FALSE])
            /\ UNCHANGED <<now, cacheVars, resolverVars, healthVars, pending_queries, datagram>>
       ELSE IF p.parses /\ p.count > 0
       THEN /\ DoHealthQuery(c, p.query, TRUE)
            /\ StorePending(c, p.id, addr, p.query)
       ELSE UNCHANGED <<now, cacheVars, resolverVars, healthVars, pending_queries,
                        written, datagram>>
    /\ UNCHANGED <<limiter, buckets, solo, lastCall, checked, conn, lifecycle>>

\* the selected upstream answers, and the callback _send_response runs
HealthPacketReply(c, m, response_time) ==
    /\ DoForwardReply(c, m, response_time, datagram[c].id \in DOMAIN pending_queries)
    /\ SendPending(c)
    /\ UNCHANGED <<limiter, buckets, datagram, solo, lastCall, checked, arrived, conn, lifecycle>>

\* the selected upstream fails, and SERVFAIL goes to the same callback
HealthPacketError(c, result) ==
    /\ DoForwardFailure(c, result)
    /\ SendPending(c)
    /\ UNCHANGED <<limiter, buckets, datagram, solo, lastCall, checked, arrived, conn, lifecycle>>

\* the statistics query, an ordinary query and a header without a question
StatsPackets(i) ==
    {Packet(40, TRUE, i, 1, StatsQuery),
     Packet(19, TRUE, i, 1, FailoverQuery),
     Packet(12, TRUE, i, 0, NoQuery)}

\* what an upstream answers: an address, or a TXT record for the name asked
StatsReplies == {FailoverReply, Message(<<RR(StatsName, dns_TXT, 2, "t")>>, << >>, << >>)}

InitStats ==
    /\ ResolverAtRest
    /\ NoRateLimiter
    /\ \E strategy \in {FAILOVER, ROUND_ROBIN} :
          /\ works \in SUBSET ServerNames(TwoServers)
          /\ InitHealthMonitor(TwoServers, HealthCheckConfig(0), strategy)

NextStats ==
    \/ \E c \in Clients, i \in QueryIds, a \in Addresses :
          \E p \in StatsPackets(i) : HealthPacketReceived(c, p, a)
    \/ \E c \in Clients, m \in StatsReplies, rt \in SelectorResponseTimes :
          HealthPacketReply(c, m, rt)
    \/ \E c \in Clients, result \in {TIMEOUT, REFUSED} : HealthPacketError(c, result)

SpecStats == InitStats /\ [][NextStats]_vars

\* C30: a TXT query for _dns-proxy-stats.local that the health-aware
\* listener receives is answered by the listener itself with one TXT record
\* of ttl 0 per monitored upstream; it is not forwarded to an upstream and
\* nothing is put into the cache for it.
C30_StatsAnsweredLocally ==
    \A c \in Clients :
        arrived[c].parses /\ arrived[c].count = 1 /\ arrived[c].query = StatsQuery =>
            /\ \E i \in DOMAIN written :
                  /\ written[i].for = c
                  /\ Len(written[i].answers) = Len(servers)
                  /\ \A j \in DOMAIN written[i].answers :
                        written[i].answers[j].type = dns_TXT /\ written[i].answers[j].ttl = 0
            /\ req[c].pc = "idle"
            /\ lastSet[CacheKey(StatsQuery)] = NoSet

----------------------------------------------------------------------------
(* DNSTCPProtocol: one TCP connection, its bytes and its transport *)

\* the messages a client sends over TCP: two queries, a header without a
\* question, and 300 octets that do not decode
TCPPackets == <<Packet(19, TRUE, 1, 1, FailoverQuery),
                Packet(19, TRUE, 2, 1, [name |-> "a", type |-> dns_AAAA, cls |-> dns_IN]),
                Packet(12, TRUE, 1, 0, NoQuery),
                Packet(300, FALSE, 0, 0, NoQuery)>>

\* the most messages a client sends on the connection
MaxPipelined == 2

\* the octets of the k-th of these messages: as many as its length, every
\* octet k
Octets(k) == Run(k, TCPPackets[k].size)

\* struct.pack('!H', n)
pack_H(n) == <<n \div 256, n % 256>>

\* struct.unpack('!H', b[:2])[0]
unpack_H(b) == 256 * b[1] + b[2]

\* the k-th message as sent over TCP, after its length
Frame(k) == pack_H(Len(Octets(k))) \o Octets(k)

RECURSIVE Stream(_)
Stream(ks) == IF ks = << >> THEN << >> ELSE Frame(Head(ks)) \o Stream(Tail(ks))

\* dns.Message().fromStr(dns_data): the message these octets are, or one
\* that does not decode
fromStr(dns_data) ==
    IF dns_data # << >> /\ dns_data[1] \in DOMAIN TCPPackets /\ dns_data = Octets(dns_data[1])
    THEN TCPPackets[dns_data[1]]
    ELSE Packet(Len(dns_data), FALSE, 0, 0, NoQuery)

\* the condition of the loop of dataReceived together with that of its if:
\* the buffer starts with a length and a message of that length
Complete(buffer) == Len(buffer) >= 2 /\ Len(buffer) >= 2 + unpack_H(buffer)

\* transport.loseConnection(): the connection closes once the reactor has
\* written what is pending; nothing happens on a connection already closing
loseConnection(k) == IF k.state = "open" THEN [k EXCEPT !.state = "closing"] ELSE k

\* transport.write(data) of a response: it is sent on an open connection and
\* goes nowhere on a closed one; on one that is closing it is sent when the
\* reactor still gets to it
transport_write(k, data) ==
    IF k.state = "open" THEN {[k EXCEPT !.sent = Append(@, data)]}
    ELSE IF k.state = "closing" THEN {k, [k EXCEPT !.sent = Append(@, data)]}
    ELSE {k}

\* _send_tcp_response(response, query_id, original_message) for request c:
\* the length, the response with the id of the query, and loseConnection
_send_tcp_response(k, c, response, query_id, queries) ==
    {loseConnection(w) :
        w \in transport_write(k, [for |-> c, id |-> query_id, rCode |-> response.rCode,
                                  prefix |-> pack_H(toStr_len(response, queries)),
                                  size |-> toStr_len(response, queries)])}

\* the request a query received on the connection is resolved as
FreeSlot == CHOOSE c \in Clients : arrived[c] = NoPacket /\ (c = "c1" \/ arrived["c1"] # NoPacket)

\* dataReceived(data) up to its loop: the next n octets of the client are
\* added to the buffer.  Twisted stops reading once loseConnection was called
DataReceived(n) ==
    /\ conn.state = "open"
    /\ ~Complete(conn.buffer)
    /\ conn.unread # << >>
    /\ LET m == IF n < Len(conn.unread) THEN n ELSE Len(conn.unread)
       IN  conn' = [conn EXCEPT !.buffer = @ \o SubSeq(conn.unread, 1, m),
                                !.unread = SubSeq(@, m + 1, Len(@))]
    /\ UNCHANGED <<now, cacheVars, resolverVars, healthVars, limiter, buckets,
                   pending_queries, written, datagram, solo, lastCall, checked, arrived, lifecycle>>

\* one pass of the loop of dataReceived: the message at the head of the
\* buffer is taken off and _process_dns_message called on it, which closes
\* the connection for a message that does not decode or has no question and
\* resolves the first question of any other; on a cache hit the response is
\* sent before it returns
ProcessMessage ==
    /\ conn.state # "none"
    /\ Complete(conn.buffer)
    /\ LET msg_length == unpack_H(conn.buffer)
           dns_data == SubSeq(conn.buffer, 3, 2 + msg_length)
           rest == [conn EXCEPT !.buffer = SubSeq(@, 3 + msg_length, Len(@))]
           message == fromStr(dns_data)
       IN  IF message.parses /\ message.count > 0
           THEN /\ \E c \in Clients : arrived[c] = NoPacket
                /\ LET c == FreeSlot
                   IN  /\ DoQuery(c, message.query, FALSE)
                       /\ arrived' = [arrived EXCEPT ![c] = message]
                       /\ datagram' = [datagram EXCEPT ![c] = [id |-> message.id, addr |-> "tcp"]]
                       /\ IF req'[c].pc = "done"
                          THEN conn' \in _send_tcp_response(rest, c, req'[c].response,
                                                            message.id, message.query)
                          ELSE conn' = rest
           ELSE /\ conn' = loseConnection(rest)
                /\ UNCHANGED <<now, cacheVars, resolverVars, arrived, datagram>>
    /\ UNCHANGED <<healthVars, limiter, buckets, pending_queries, written, solo, lastCall, checked, lifecycle>>

\* the upstream's reply arrives and the callback _send_tcp_response runs
TCPReply(c, m) ==
    /\ conn.state # "none"
    /\ ~Complete(conn.buffer)
    /\ DoUpstreamReply(c, m, FALSE)
    /\ conn' \in _send_tcp_response(conn, c, req'[c].response, datagram[c].id, req[c].query)
    /\ UNCHANGED <<healthVars, limiter, buckets, pending_queries, written, datagram,
                   solo, lastCall, checked, arrived, lifecycle>>

\* the upstream fails: resolve_query returns SERVFAIL to the same callback
TCPError(c) ==
    /\ conn.state # "none"
    /\ ~Complete(conn.buffer)
    /\ DoUpstreamError(c)
    /\ conn' \in _send_tcp_response(conn, c, req'[c].response, datagram[c].id, req[c].query)
    /\ UNCHANGED <<healthVars, limiter, buckets, pending_queries, written, datagram,
                   solo, lastCall, checked, arrived, lifecycle>>

\* the reactor has written what was pending on a connection that
\* loseConnection was called on, and closes it
ConnectionLost ==
    /\ conn.state = "closing"
    /\ ~Complete(conn.buffer)
    /\ conn' = [conn EXCEPT !.state = "closed"]
    /\ UNCHANGED <<now, cacheVars, resolverVars, healthVars, limiter, buckets,
                   pending_queries, written, datagram, solo, lastCall, checked, arrived, lifecycle>>

\* how many octets one read brings
ReadSizes == {1, 21, 400}

\* buildProtocol and connectionMade, and the messages the client will send
InitTCP ==
    /\ ResolverAtRest
    /\ NoHealthMonitor
    /\ limiter = RateLimiter(RATE_LIMIT_PER_IP, RATE_LIMIT_BURST, CACHE_CLEANUP_INTERVAL, 0)
    /\ buckets = << >>
    /\ pending_queries = << >>
    /\ written = << >>
    /\ datagram = [c \in Clients |-> NoDatagram]
    /\ solo = << >>
    /\ lastCall = NoCall
    /\ checked = NoCheck
    /\ arrived = [c \in Clients |-> NoPacket]
    /\ lifecycle = NoLifecycle
    /\ \E n \in 1..MaxPipelined : \E ks \in [1..n -> DOMAIN TCPPackets] :
          conn = [state |-> "open", unread |-> Stream(ks), buffer |-> << >>, sent |-> << >>]

NextTCP ==
    \/ \E n \in ReadSizes : DataReceived(n)
    \/ ProcessMessage
    \/ \E c \in Clients : TCPReply(c, FailoverReply)
    \/ \E c \in Clients : TCPError(c)
    \/ ConnectionLost

SpecTCP == InitTCP /\ [][NextTCP]_vars

\* C26: every response on a TCP connection follows its 2-byte length, and a
\* connection is not closed while a query that was received on it in full
\* has no response.
C26_TCPExchange ==
    /\ \A i \in DOMAIN conn.sent : unpack_H(conn.sent[i].prefix) = conn.sent[i].size
    /\ conn.state = "closed" =>
          \A c \in Clients :
              arrived[c] # NoPacket => \E i \in DOMAIN conn.sent : conn.sent[i].for = c

----------------------------------------------------------------------------
(* Properties of set on a key that is present *)

\* C34: set(k, v2, ttl2) on a key k that is already present replaces only k's
\* payload and expiry: no other key is removed, the number of entries is
\* unchanged and the eviction counter is not incremented, also when the cache
\* is at max_size.
C34_ReplaceInPlace ==
    [][(lastOp'.op = "set" /\ lastOp'.key \in Keys(cache)) =>
          /\ Keys(cache') = Keys(cache)
          /\ Len(cache') = Len(cache)
          /\ stats'.evictions = stats.evictions]_vars

----------------------------------------------------------------------------
(* The ttl resolve_query caches a response with *)

\* an address record whose ttl is above the cap
LongLived == RR("t", dns_A, CACHE_MAX_TTL + 1, "ip3")

\* what the upstream answers: records above the cap alone, with a shorter
\* one and behind a CNAME, answers that the transformation empties, and no
\* answer at all
TTLReplies == {Message(<<LongLived>>, << >>, << >>),
               Message(<<LongLived, A1>>, << >>, << >>),
               Message(<<CN, LongLived>>, << >>, << >>),
               Message(<<V6>>, << >>, << >>),
               Message(<<CN>>, << >>, << >>),
               Message(<< >>, <<CN>>, << >>)}

TTLQueries == {[name |-> "a", type |-> dns_A, cls |-> dns_IN],
               [name |-> "a", type |-> dns_AAAA, cls |-> dns_IN],
               [name |-> "a", type |-> dns_TXT, cls |-> dns_IN]}

NextTTL ==
    \/ \E c \in Clients, q \in TTLQueries : Query(c, q)
    \/ \E c \in Clients, m \in TTLReplies : UpstreamReply(c, m)
    \/ \E d \in TimeSteps : Tick(d)

SpecTTL == InitResolver /\ [][NextTTL]_vars

\* C33: the entry resolve_query writes after a successful upstream reply
\* expires min(m, 86400) seconds later, m the least ttl of the answer records
\* of the response it returns, and 60 seconds later when that response has no
\* answer record, whether the upstream's answer was empty or the
\* transformation emptied it.
C33_CacheTTL ==
    [][\A c \in Clients :
          (req[c].pc = "upstream" /\ req'[c].pc = "done" /\ req'[c].via = "upstream") =>
              LET key == CacheKey(req[c].query)
                  answers == req'[c].response.answers
                  least == CHOOSE t \in {answers[i].ttl : i \in DOMAIN answers} :
                              \A i \in DOMAIN answers : t <= answers[i].ttl
              IN  /\ key \in Keys(cache')
                  /\ Entry(cache', key).data = req'[c].response
                  /\ Entry(cache', key).expiry =
                        now + (IF answers = << >> THEN 60
                               ELSE IF least <= 86400 THEN least ELSE 86400)]_vars

\* one response cached at the cap, its records' ttl being above it, and one
\* cached for 60 seconds that the transformation had emptied
C33_Witness ==
    /\ req["c1"].via = "upstream" /\ req["c1"].response.answers # << >>
    /\ \A i \in DOMAIN req["c1"].response.answers :
          req["c1"].response.answers[i].ttl > CACHE_MAX_TTL
    /\ req["c1"].cachedUntil = req["c1"].start + CACHE_MAX_TTL
    /\ req["c2"].via = "upstream" /\ req["c2"].reply.answers # << >>
    /\ req["c2"].response.answers = << >>
    /\ req["c2"].cachedUntil = req["c2"].start + CACHE_NEGATIVE_TTL

----------------------------------------------------------------------------
(* Properties of the flattened answer *)

\* C35: after CNAME flattening for a query of type A or AAAA, every record
\* of the answer section has the name and the type of the query: only A
\* records for an A query, only AAAA records for an AAAA query.
C35_QueriedTypeOnly ==
    \A c \in Clients :
        (Served(c) /\ req[c].query.type \in {dns_A, dns_AAAA}
                   /\ req[c].reply.answers # << >> /\ _count_cnames(req[c].reply) > 0) =>
            \A i \in DOMAIN req[c].response.answers :
                /\ req[c].response.answers[i].name = req[c].query.name
                /\ req[c].response.answers[i].type = req[c].query.type

----------------------------------------------------------------------------
(* The rate limiter's counters, with reset_stats *)

\* the is_allowed calls made so far, by whichever of the two addresses
CallsMade == Seen("ipA", now).calls + Seen("ipB", now).calls

\* is_allowed(ip_address), one of at most MaxShared calls
CountedCall(ip_address) ==
    /\ CallsMade < MaxShared
    /\ DoIsAllowed(ip_address)
    /\ UNCHANGED <<now, cacheVars, resolverVars, healthVars, pending_queries, written,
                   datagram, checked, arrived, conn, lifecycle>>

\* reset_stats(): self.stats.clear()
ResetStats ==
    /\ limiter' = [limiter EXCEPT !.stats = [allowed |-> 0, blocked |-> 0,
                                             blocked_ip |-> [ip \in Addresses |-> 0]]]
    /\ lastCall' = [NoCall EXCEPT !.kind = "reset_stats"]
    /\ UNCHANGED <<now, cacheVars, resolverVars, healthVars, buckets, pending_queries,
                   written, datagram, solo, checked, arrived, conn, lifecycle>>

\* RateLimiter(rate_per_ip=1, burst_per_ip=2)
InitCounters ==
    /\ ResolverAtRest
    /\ NoHealthMonitor
    /\ limiter = RateLimiter(1, 2, CACHE_CLEANUP_INTERVAL, 0)
    /\ buckets = << >>
    /\ pending_queries = << >>
    /\ written = << >>
    /\ datagram = [c \in Clients |-> NoDatagram]
    /\ solo = << >>
    /\ lastCall = NoCall
    /\ WireAtRest

NextCounters ==
    \/ \E ip \in Addresses : CountedCall(ip)
    \/ ResetStats
    \/ \E d \in LimiterSteps : LimiterTick(d, MaxClock)

SpecCounters == InitCounters /\ [][NextCounters]_vars

\* C39: every bucket holds between 0 and burst tokens; allowed + blocked is
\* the number of is_allowed calls since the last reset_stats, and blocked is
\* the sum of the blocked counters of the addresses.
C39_BucketAndCounters ==
    /\ \A ip \in DOMAIN buckets :
          buckets[ip].tokens >= 0 /\ buckets[ip].tokens <= buckets[ip].burst * OneToken
    /\ limiter.stats.allowed + limiter.stats.blocked = lastCall.since
    /\ limiter.stats.blocked =
          limiter.stats.blocked_ip["ipA"] + limiter.stats.blocked_ip["ipB"]

\* calls allowed and blocked for both addresses after a reset, one bucket
\* empty and one refilled
C39_Witness ==
    /\ lastCall.since < CallsMade
    /\ limiter.stats.allowed > 0
    /\ limiter.stats.blocked_ip["ipA"] > 0 /\ limiter.stats.blocked_ip["ipB"] > 0
    /\ \E ip \in DOMAIN buckets : buckets[ip].tokens < OneToken

----------------------------------------------------------------------------
(* Properties of overlapping queries *)

\* C32: at any time at most one upstream resolution is in flight per cache
\* key, so that two overlapping queries for one (name, type, class) never
\* both write the key's entry.
C32_SingleWriterInFlight ==
    \A c, d \in Clients :
        (req[c].pc = "upstream" /\ req[d].pc = "upstream"
            /\ CacheKey(req[c].query) = CacheKey(req[d].query)) => c = d

----------------------------------------------------------------------------
(* Properties of the cache under the UDP listener *)

\* C31: serving a response does not change what the cache holds: an entry
\* keeps the response it was set with, and a hit returns the complete
\* transformed response, its truncated flag clear and its additional records
\* all there, also after that response went truncated to a UDP client.
C31_ServingKeepsCache ==
    /\ \A i \in DOMAIN cache :
          lastSet[cache[i].key].live => cache[i].data = lastSet[cache[i].key].data
    /\ \A c \in Clients :
          (Finished(c) /\ req[c].via = "cache") =>
              /\ req[c].response = Transform(req[c].reply, req[c].writer, remove_aaaa).response
              /\ ~req[c].response.trunc

----------------------------------------------------------------------------
(* The upstreams one client query is sent to *)

Distinct(seq) == \A i, j \in DOMAIN seq : seq[i] = seq[j] => i = j

\* C36: for one client query at most FALLBACK_COUNT upstreams are contacted,
\* pairwise distinct, and after the failure that starts the fallback loop no
\* fallback candidate is left untried when the query ends in failure.
C36_BoundedDistinctRetries ==
    hev.kind = "record" /\ hev.result = REFUSED /\ hev.tried # << >>
        => /\ Len(hev.tried) <= FALLBACK_COUNT
           /\ Distinct(hev.tried)
           /\ Elems(hev.picked) \subseteq Elems(hev.tried)

----------------------------------------------------------------------------
(* The health state and the counters of ServerMetrics *)

----------------------------------------------------------------------------
(* HealthMonitor.start, stop and the probe loop (dns_proxy/health/monitor.py). *)
(* lifecycle holds _started; loop, the state of the LoopingCall that           *)
(* _health_check_loop names ("none", "idle", "running"), the created-th made;  *)
(* delayed, the times at which the reactor will call start_loop; call, the     *)
(* time of the LoopingCall's next call; rounds, the _run_health_checks under   *)
(* way, each with the LoopingCall it belongs to and the servers left to        *)
(* probe, the probe of the first being in flight.  History: halted, stop()     *)
(* has returned and start() has not been called since; late, a probe was       *)
(* issued while halted.                                                        *)

\* the servers a round of _run_health_checks probes, in order
Probed(ss) == [i \in DOMAIN SelectSeq(ss, LAMBDA s : s.health_check) |->
                  SelectSeq(ss, LAMBDA s : s.health_check)[i].name]

\* LoopingCall._scheduleFrom: the next multiple of the interval after t
Rescheduled(l, t) ==
    [l EXCEPT !.call = t + config.interval - ((t - l.starttime) % config.interval)]

\* the LoopingCall calls _run_health_checks at time t: the probe of the first
\* server is sent; with no server to probe the round is over at once
BeginRound(l, t) ==
    IF Probed(servers) = << >> THEN Rescheduled(l, t)
    ELSE [l EXCEPT !.rounds = Append(@, [of |-> l.created, left |-> Probed(servers)]),
                   !.late = @ \/ l.halted]

\* the variables of the listener beside lifecycle
ListenerAtRest ==
    UNCHANGED <<limiter, buckets, pending_queries, written, datagram, solo, lastCall,
                checked, arrived, conn>>

LifecycleStep ==
    /\ ListenerAtRest
    /\ UNCHANGED <<now, cacheVars, resolverVars, healthVars>>

\* HealthMonitor.start()
Start ==
    /\ lifecycle' =
          LET l == [lifecycle EXCEPT !.halted = FALSE]
          IN  IF l._started \/ ~config.enabled THEN l
              ELSE [l EXCEPT !.loop = "idle", !.created = @ + 1,
                             !.delayed = Append(@, now + HEALTH_CHECK_STARTUP_DELAY),
                             !._started = TRUE]
    /\ LifecycleStep

\* HealthMonitor.stop(), which HealthAwareDNSResolver.stop() calls
Stop ==
    /\ lifecycle' =
          LET l == [lifecycle EXCEPT !.halted = TRUE]
          IN  IF l.loop = "running"
              THEN [l EXCEPT !.loop = "idle", !.call = NoTime, !._started = FALSE]
              ELSE l
    /\ LifecycleStep

\* the reactor calls start_loop: the LoopingCall that _health_check_loop names
\* now is started with now=True (a running one raises, and nothing changes)
StartLoop ==
    /\ lifecycle.delayed # << >>
    /\ now >= Head(lifecycle.delayed)
    /\ lifecycle' =
          LET l == [lifecycle EXCEPT !.delayed = Tail(@)]
          IN  IF l.loop = "running" THEN l
              ELSE BeginRound([l EXCEPT !.loop = "running", !.starttime = now], now)
    /\ LifecycleStep

\* the LoopingCall's timer fires
RunHealthChecks ==
    /\ lifecycle.loop = "running"
    /\ lifecycle.call # NoTime
    /\ now >= lifecycle.call
    /\ lifecycle' = BeginRound([lifecycle EXCEPT !.call = NoTime], now)
    /\ LifecycleStep

\* the probe in flight of round i ends: _check_server_health records it and
\* _run_health_checks goes on to the next server; after the last server the
\* LoopingCall, if it is still running, schedules its next call
ProbeReply(i, result, response_time) ==
    /\ i \in DOMAIN lifecycle.rounds
    /\ Recorded < MaxRecorded
    /\ LET r == lifecycle.rounds[i]
           n == Head(r.left)
           l == [lifecycle EXCEPT !.rounds = [j \in 1..(Len(@) - 1) |->
                                                IF j < i THEN @[j] ELSE @[j + 1]]]
       IN  /\ metrics' = [metrics EXCEPT ![n] =
                             _check_server_health(@, result, response_time, now, config)]
           /\ Noted("probe", n, result)
           /\ lifecycle' =
                 IF Tail(r.left) # << >>
                 THEN [lifecycle EXCEPT !.rounds[i].left = Tail(@),
                                        !.late = @ \/ lifecycle.halted]
                 ELSE IF r.of = l.created /\ l.loop = "running" THEN Rescheduled(l, now)
                 ELSE l
    /\ ListenerAtRest
    /\ UNCHANGED <<now, cacheVars, resolverVars>>
    /\ UNCHANGED <<config, servers, next_check, selector, works, attempt, rotation>>

NextLifecycle ==
    \/ Start
    \/ Stop
    \/ StartLoop
    \/ RunHealthChecks
    \/ \E i \in 1..2, result \in {SUCCESS, TIMEOUT}, rt \in SelectorResponseTimes :
          ProbeReply(i, result, rt)
    \/ \E d \in HealthSteps : HealthTick(d)

SpecLifecycle == InitMonitor /\ [][NextLifecycle]_vars

\* C40: at most one probe loop is scheduled or running, and no probe is
\* issued between the return of stop() and the next call of start().
C40_ProbeLoopLifecycle ==
    /\ Len(lifecycle.delayed) + (IF lifecycle.loop = "running" THEN 1 ELSE 0) <= 1
    /\ ~lifecycle.late

====
